---- MODULE Spec2Model ----
(***************************************************************************)
(* Client/server synchronisation core of xney/game                         *)
(* (src/src/network/server.rs, src/src/network/client.rs, src/src/world.rs)*)
(*                                                                         *)
(* Terrain is a Vec<Chunk>; a Chunk is a chunk_number and a                *)
(* CHUNK_HEIGHT x CHUNK_WIDTH array of Option<Block>.  A cell is 0 for     *)
(* None and a block type k > 0 for Some(Block{block_type: k}).  Rust       *)
(* indices are 0-based, TLA+ sequences 1-based: blocks[y][x] of the source *)
(* is blocks[y+1][x+1] here, terrain.chunks[n] is terrain[n+1].            *)
(***************************************************************************)
EXTENDS Integers, Sequences, FiniteSets, TLC

\* ------------------------------------------------------------------ bounds
\* world.rs:15-16 has 64 x 128 cells per chunk; the model keeps the shape
\* of the array and scales both dimensions down.
CHUNK_HEIGHT == 1
CHUNK_WIDTH == 2
\* number of chunks the canonical terrain holds
NumChunks == 3
\* server.sequence starts at 1 (server.rs:78); network ticks stop at MaxSeq
MaxSeq == 3
\* server.rs:22 (20) and client.rs:15 (10), scaled down
MESSAGE_QUEUE_SIZE == 2
CLIENT_MESSAGE_QUEUE_SIZE == 1
\* common.rs:33 (NETWORK_TICK_HZ * 2 = 20), scaled down
FRAME_DIFFERENCE_BEFORE_DISCONNECT == 3
\* Pongs a peer's outbound queue may hold at once (the code has no limit)
MaxPongs == 1
MaxClientPackets == 4

\* ------------------------------------------------------------------ helpers
Range(s) == {s[i] : i \in DOMAIN s}

Max(a, b) == IF a >= b THEN a ELSE b

RECURSIVE Flatten(_)
Flatten(ss) == IF ss = <<>> THEN <<>> ELSE Head(ss) \o Flatten(Tail(ss))

\* ------------------------------------------------------------------ world.rs
\* Block types; generation (world.rs Chunk::new) is out of scope, the model
\* fixes one deterministic content per cell so that chunks differ.
GeneratedBlock(n, y, x) == 1 + ((n + y + x) % 2)

Chunk(n) ==
    [chunk_number |-> n,
     blocks |-> [y \in 1..CHUNK_HEIGHT |->
                    [x \in 1..CHUNK_WIDTH |-> GeneratedBlock(n, y - 1, x - 1)]]]

\* Terrain::empty (world.rs:130-136)
EmptyTerrain == <<>>

\* Terrain::new (world.rs:106-127): chunks numbered 0..num_chunks-1 in order
NewTerrain(num_chunks) == [i \in 1..num_chunks |-> Chunk(i - 1)]

\* the chunk numbers a terrain holds
ChunkNumbers(t) == {t[i].chunk_number : i \in DOMAIN t}

\* destroy_block (world.rs:727-783): global (x, y) -> chunk y / CHUNK_HEIGHT,
\* row y % CHUNK_HEIGHT; InvalidX, ChunkNotLoaded and BlockDoesntExist leave
\* the terrain as it is.
destroy_block(x, y, t) ==
    IF x >= CHUNK_WIDTH THEN t
    ELSE [i \in DOMAIN t |->
            IF t[i].chunk_number = y \div CHUNK_HEIGHT
            THEN [t[i] EXCEPT !.blocks[(y % CHUNK_HEIGHT) + 1][x + 1] = 0]
            ELSE t[i]]

\* ------------------------------------------------------------------ deltas
NewChunks(t) == [type |-> "NewChunks", terrain |-> t]
BlockDelete(n, x, y) == [type |-> "BlockDelete", chunk_number |-> n, x |-> x, y |-> y]

\* server.rs:486-502: one change replayed onto the peer's baseline
ReplayChangeToggles(t, change) ==
    IF change.type = "NewChunks"
    THEN change.terrain
    ELSE [i \in DOMAIN t |->
            IF t[i].chunk_number = change.chunk_number
            THEN [t[i] EXCEPT !.blocks[change.y + 1][change.x + 1] =
                     IF @ = 0 THEN 1 ELSE 0]
            ELSE t[i]]

ReplayChangeWrongCell(t, change) ==
    IF change.type = "NewChunks"
    THEN change.terrain
    ELSE [i \in DOMAIN t |->
            IF t[i].chunk_number = change.chunk_number
            THEN [t[i] EXCEPT !.blocks[change.y + 1] =
                     [x \in 1..CHUNK_WIDTH |-> 0]]
            ELSE t[i]]

ReplayChange(t, change) ==
    IF change.type = "NewChunks"
    THEN change.terrain
    ELSE [i \in DOMAIN t |->
            IF t[i].chunk_number = change.chunk_number
            THEN [t[i] EXCEPT !.blocks[change.y + 1][change.x + 1] = 0]
            ELSE t[i]]

\* server.rs:485-503: for change in changes
RECURSIVE ReplayChanges(_, _)
ReplayChanges(t, changes) ==
    IF changes = <<>> THEN t
    ELSE ReplayChanges(ReplayChange(t, Head(changes)), Tail(changes))

\* client.rs:392-441: one delta applied to the client's terrain; NewChunks
\* overwrites the whole terrain, BlockDelete clears the cell when it holds a
\* block and only warns when it is already empty.
ClientApplyDelta(t, delta) ==
    IF delta.type = "NewChunks"
    THEN delta.terrain
    ELSE [i \in DOMAIN t |->
            IF t[i].chunk_number = delta.chunk_number
            THEN IF t[i].blocks[delta.y + 1][delta.x + 1] # 0
                 THEN [t[i] EXCEPT !.blocks[delta.y + 1][delta.x + 1] = 0]
                 ELSE t[i]
            ELSE t[i]]

\* client.rs:391: for delta in deltas
RECURSIVE ClientApplyDeltas(_, _)
ClientApplyDeltas(t, deltas) ==
    IF deltas = <<>> THEN t
    ELSE ClientApplyDeltas(ClientApplyDelta(t, Head(deltas)), Tail(deltas))

\* server.rs:606-611: the chunk the player is in and its window, as the
\* pair <<first, last>> of chunk numbers.  depth is -(player_position.y).
PlayerChunk(depth) == depth \div CHUNK_HEIGHT

ChunkRange(depth) ==
    IF PlayerChunk(depth) = 0
    THEN <<0, 1>>
    ELSE <<PlayerChunk(depth) - 1, PlayerChunk(depth) + 1>>

Window(depth) == ChunkRange(depth)[1]..ChunkRange(depth)[2]

\* server.rs:616-632
NeedsBaseline(baseline, depth) ==
    \E n \in Window(depth) : n \notin ChunkNumbers(baseline)

\* server.rs:642 indexes terrain.chunks[chunk_number] for every chunk of the
\* range: out of bounds panics.
BaselinePanics(canon, depth) ==
    \E n \in Window(depth) : n >= Len(canon)

BaselineWholeTerrain(canon, depth) == canon

\* server.rs:639-643: the chunks of the range, cloned in range order
BaselineFor(canon, depth) ==
    [i \in 1..(ChunkRange(depth)[2] - ChunkRange(depth)[1] + 1) |->
        canon[ChunkRange(depth)[1] + i]]

\* server.rs:657-673: the deletions of one baseline chunk, y outer, x inner
CellOrder == [k \in 1..(CHUNK_HEIGHT * CHUNK_WIDTH) |->
                 [y |-> (k - 1) \div CHUNK_WIDTH, x |-> (k - 1) % CHUNK_WIDTH]]

ChunkDeletionsAnyDifference(client_chunk, canon) ==
    IF client_chunk.chunk_number < Len(canon)
    THEN LET server_chunk == canon[client_chunk.chunk_number + 1]
             differs(c) == (client_chunk.blocks[c.y + 1][c.x + 1] # 0)
                              # (server_chunk.blocks[c.y + 1][c.x + 1] # 0)
             cells == SelectSeq(CellOrder, differs)
         IN [k \in DOMAIN cells |->
                BlockDelete(client_chunk.chunk_number, cells[k].x, cells[k].y)]
    ELSE <<>>

ChunkDeletions(client_chunk, canon) ==
    IF client_chunk.chunk_number < Len(canon)
    THEN LET server_chunk == canon[client_chunk.chunk_number + 1]
             gone(c) == /\ client_chunk.blocks[c.y + 1][c.x + 1] # 0
                        /\ server_chunk.blocks[c.y + 1][c.x + 1] = 0
             cells == SelectSeq(CellOrder, gone)
         IN [k \in DOMAIN cells |->
                BlockDelete(client_chunk.chunk_number, cells[k].x, cells[k].y)]
    ELSE <<>>

\* server.rs:634-683: world_changes for one peer
WorldChangesNoDeletes(baseline, canon, depth) ==
    IF NeedsBaseline(baseline, depth)
    THEN <<NewChunks(BaselineFor(canon, depth))>>
    ELSE <<>>

WorldChanges(baseline, canon, depth) ==
    IF NeedsBaseline(baseline, depth)
    THEN <<NewChunks(BaselineFor(canon, depth))>>
    ELSE Flatten([i \in DOMAIN baseline |-> ChunkDeletions(baseline[i], canon)])


\* ------------------------------------------------------------------ messages
\* player.rs:40-48 PlayerInput; only the mining part reaches this core
\* (left/right/jump feed the physics, which is out of scope).
DefaultInput == [mine |-> FALSE, block_x |-> 0, block_y |-> 0]

\* common.rs:106-113 ClientBodyElem
Ping == [type |-> "Ping"]
Input(i) == [type |-> "Input", input |-> i]

\* common.rs:64-77 ServerBodyElem (Pong carries the ping's sequence)
Pong(s) == [type |-> "Pong", seq |-> s]
WorldDeltas(ds) == [type |-> "WorldDeltas", deltas |-> ds]
PlayerInfo(ps) == [type |-> "PlayerInfo", players |-> ps]

\* common.rs:89-103 ClientToServer
ClientToServer(cur, lrs, bodies) ==
    [header |-> [current_sequence |-> cur, last_received_sequence |-> lrs],
     bodies |-> bodies]

\* common.rs:51-62 ServerToClient
ServerToClient(s, bodies) == [header |-> [sequence |-> s], bodies |-> bodies]

\* ------------------------------------------------------------------ server peer
ConnectedClientInfoWithSurface ==
    [last_ack |-> 0,
     bodies |-> <<>>,
     until_drop |-> FRAME_DIFFERENCE_BEFORE_DISCONNECT,
     last_confirmed_terrain |-> NewTerrain(2),
     deltas |-> <<>>]

\* ConnectedClientInfo::default (server.rs:55-65); deltas is the HashMap
\* from sequence to the delta list sent at that sequence.
DefaultConnectedClientInfo ==
    [last_ack |-> 0,
     bodies |-> <<>>,
     until_drop |-> FRAME_DIFFERENCE_BEFORE_DISCONNECT,
     last_confirmed_terrain |-> EmptyTerrain,
     deltas |-> <<>>]

\* a HashMap<u64, _> is a function on its key set; <<>> is the empty map
Keys(m) == DOMAIN m
MapInsert(m, k, v) == [j \in (DOMAIN m) \cup {k} |-> IF j = k THEN v ELSE m[j]]

\* server.rs:475: this message is in-order
InOrderNotEqual(client, message) ==
    message.header.last_received_sequence # client.last_ack

InOrder(client, message) ==
    message.header.last_received_sequence > client.last_ack

ConfirmedTerrainDeferred(client, ack) == client.last_confirmed_terrain

\* server.rs:480-511: the recorded changes replayed onto the baseline; an
\* acknowledged sequence without a stored changelist only logs an error
ConfirmedTerrain(client, ack) ==
    IF ack \in Keys(client.deltas)
    THEN ReplayChanges(client.last_confirmed_terrain, client.deltas[ack])
    ELSE client.last_confirmed_terrain

\* server.rs:513-516: drop all old stored changes
PruneDropsAll(deltas, ack) == <<>>

PruneKeepsAcked(deltas, ack) ==
    [j \in {k \in DOMAIN deltas : k >= ack} |-> deltas[j]]

Prune(deltas, ack) ==
    [j \in {k \in DOMAIN deltas : k > ack} |-> deltas[j]]

\* server.rs:475-523: the in-order branch
AcceptAck(client, message) ==
    LET ack == message.header.last_received_sequence
    IN [last_ack |-> ack,
        bodies |-> <<>>,
        until_drop |-> FRAME_DIFFERENCE_BEFORE_DISCONNECT,
        last_confirmed_terrain |-> ConfirmedTerrain(client, ack),
        deltas |-> Prune(client.deltas, ack)]

\* server.rs:526-543: the direct responses, one Pong per Ping
Responses(message) ==
    LET pings == SelectSeq(message.bodies, LAMBDA b : b.type = "Ping")
    IN [k \in DOMAIN pings |-> Pong(message.header.current_sequence)]

FirstInput(bodies, input) ==
    LET ins == SelectSeq(bodies, LAMBDA b : b.type = "Input")
    IN IF ins = <<>> THEN input ELSE ins[1].input

\* server.rs:532-537: every Input body of an in-order message overwrites the
\* component in turn, so the last one stays
RECURSIVE LastInput(_, _)
LastInput(bodies, input) ==
    IF bodies = <<>> THEN input
    ELSE LastInput(Tail(bodies),
                   IF Head(bodies).type = "Input" THEN Head(bodies).input ELSE input)

\* server.rs:557-561
KeepBody(elem, last_ack) == elem.type # "Pong" \/ elem.seq >= last_ack

\* process_client_message (server.rs:449-562): the peer's connection state and
\* the PlayerInput component after one message
ProcessMessageAlwaysAlive(client, message, input) ==
    LET in_order == InOrder(client, message)
        c1 == IF in_order THEN AcceptAck(client, message)
              ELSE [client EXCEPT !.until_drop = FRAME_DIFFERENCE_BEFORE_DISCONNECT]
        queued == c1.bodies \o Responses(message)
    IN [client |-> [c1 EXCEPT !.bodies =
                        SelectSeq(queued, LAMBDA e : KeepBody(e, c1.last_ack))],
        input |-> IF in_order THEN LastInput(message.bodies, input) ELSE input]

process_client_message(client, message, input) ==
    LET in_order == InOrder(client, message)
        c1 == IF in_order THEN AcceptAck(client, message) ELSE client
        queued == c1.bodies \o Responses(message)
    IN [client |-> [c1 EXCEPT !.bodies =
                        SelectSeq(queued, LAMBDA e : KeepBody(e, c1.last_ack))],
        input |-> IF in_order THEN LastInput(message.bodies, input) ELSE input]


\* ------------------------------------------------------------------ state
VARIABLES
    sequence,     \* Server.sequence (server.rs:29)
    terrain,      \* the canonical Terrain resource
    entities,     \* the player entities, in spawn order, with their components
    stage,        \* "idle", or "net" while the network-tick systems run
    done,         \* the network-tick systems that ran in this stage
    sent,         \* every packet send_all_messages handed to the socket
    crashed,      \* a system panicked
    messages,     \* server Messages.messages (server.rs:36-38)
    env,          \* environment: who sends what, fixed for a behaviour
    client,       \* the Client resource and the client's Terrain
    cmessages,    \* client Messages.messages (client.rs:39-42)
    c2s,          \* every packet the client handed to its socket
    s2c,          \* every server packet on its way to the client
    replay,       \* inputs and results of the replay law (pure functions)
    seen,         \* observer: the kinds of acknowledgment the last game tick handled
    wire          \* Server.buffer (server.rs:31) and the values put through the codec

vars == <<sequence, terrain, entities, stage, done, sent, crashed, messages,
          env, client, cmessages, c2s, s2c, replay, seen, wire>>

serverVars == <<sequence, terrain, entities, stage, done, sent, crashed>>
clientVars == <<client, cmessages, c2s, s2c>>

\* the socket addresses of the model
Addrs == {1, 2}

\* an entity: ClientAddress, Option<ConnectedClientInfo>, PlayerInput and
\* PlayerPosition (as depth = -y); info is the default when not connected
Entity(addr, connected, info, input, depth) ==
    [addr |-> addr, connected |-> connected, info |-> info,
     input |-> input, depth |-> depth]

\* server.rs:363-367: the query is scanned to its end, the last match stays
EntityAt(ents, addr) ==
    LET hits == {i \in DOMAIN ents : ents[i].addr = addr}
    IN IF hits = {} THEN 0 ELSE CHOOSE i \in hits : \A j \in hits : j <= i

\* ------------------------------------------------------------------ retrieve
\* retrieve_messages (server.rs:304-314), one received datagram: entries are
\* popped from the front while the queue is longer than MESSAGE_QUEUE_SIZE,
\* then the datagram is pushed
RECURSIVE PopWhileOver(_, _)
PopWhileOver(q, size) ==
    IF Len(q) > size THEN PopWhileOver(Tail(q), size) ELSE q

PushMessageDropNewest(q, m) ==
    IF Len(q) > MESSAGE_QUEUE_SIZE THEN q ELSE Append(q, m)

PushMessage(q, m) == Append(PopWhileOver(q, MESSAGE_QUEUE_SIZE), m)

\* retrieve_messages (server.rs:295-334) over the datagrams of one game tick
RECURSIVE RetrieveAll(_, _)
RetrieveAll(q, burst) ==
    IF burst = <<>> THEN q
    ELSE RetrieveAll(PushMessage(q, Head(burst)), Tail(burst))

\* ------------------------------------------------------------------ handle
\* observer, not code: what a message's acknowledgment is to the peer that
\* receives it: not newer than last_ack, newer with a recorded delta list,
\* or newer without one
AckKind(info, message) ==
    IF message.header.last_received_sequence <= info.last_ack THEN "stale"
    ELSE IF message.header.last_received_sequence \in Keys(info.deltas)
    THEN "recorded"
    ELSE "unrecorded"

\* observer, not code: a message from an address without an entity, by
\* whether it acknowledges sequence 0
NewKind(message) ==
    IF message.header.last_received_sequence = 0 THEN "new0" ELSE "new"

\* handle_messages (server.rs:359-415), one queued message.  acc.ents are the
\* components as the query sees them (mutated in place), acc.ins the
\* ConnectedClientInfo inserts queued on Commands (applied when the stage
\* ends, the last insert for an entity stays), acc.new the messages of
\* addresses without an entity, acc.kinds what the observers above say of
\* the messages ("rejoin": a message for an entity that is not connected).
HandleOne(acc, dgram) ==
    LET e == EntityAt(acc.ents, dgram.addr)
    IN IF e = 0
       THEN [acc EXCEPT !.new[dgram.addr] = Append(@, dgram.message),
                        !.kinds = @ \cup {NewKind(dgram.message)}]
       ELSE IF acc.ents[e].connected
       THEN LET r == process_client_message(acc.ents[e].info, dgram.message,
                                            acc.ents[e].input)
            IN [acc EXCEPT !.ents[e].info = r.client, !.ents[e].input = r.input,
                           !.kinds = @ \cup {AckKind(acc.ents[e].info, dgram.message)}]
       ELSE LET r == process_client_message(DefaultConnectedClientInfo,
                                            dgram.message, acc.ents[e].input)
            IN [acc EXCEPT !.ents[e].input = r.input,
                           !.ins[e] = [has |-> TRUE, info |-> r.client],
                           !.kinds = @ \cup {"rejoin"}]

RECURSIVE HandleQueue(_, _)
HandleQueue(acc, q) ==
    IF q = <<>> THEN acc ELSE HandleQueue(HandleOne(acc, Head(q)), Tail(q))

\* server.rs:429-432: all messages of one new address on one fresh peer
RECURSIVE ProcessAll(_, _)
ProcessAll(r, msgs) ==
    IF msgs = <<>> THEN r
    ELSE ProcessAll(process_client_message(r.client, Head(msgs), r.input),
                    Tail(msgs))

NewClientLastMessageOnly(addr, msgs) ==
    LET r == process_client_message(DefaultConnectedClientInfo,
                                    msgs[Len(msgs)], DefaultInput)
    IN Entity(addr, TRUE, r.client, r.input, 0)

\* server.rs:417-444: one entity spawned per new address
NewClient(addr, msgs) ==
    LET r == ProcessAll([client |-> DefaultConnectedClientInfo,
                         input |-> DefaultInput], msgs)
    IN Entity(addr, TRUE, r.client, r.input, 0)

\* new_clients is a HashMap: its iteration order is not fixed; order is one
\* enumeration of the addresses
SpawnNewNone(ents, new, order) == ents

RECURSIVE SpawnNew(_, _, _)
SpawnNew(ents, new, order) ==
    IF order = <<>> THEN ents
    ELSE SpawnNew(IF new[Head(order)] = <<>> THEN ents
                  ELSE Append(ents, NewClient(Head(order), new[Head(order)])),
                  new, Tail(order))

\* handle_messages (server.rs:337-445) with its Commands applied
Handled(ents, q) ==
    HandleQueue([ents |-> ents,
                 ins |-> [i \in DOMAIN ents |->
                             [has |-> FALSE, info |-> DefaultConnectedClientInfo]],
                 new |-> [a \in Addrs |-> <<>>],
                 kinds |-> {}], q)

handle_messages(ents, q, order) ==
    LET acc == Handled(ents, q)
        inserted == [i \in DOMAIN ents |->
                        IF acc.ins[i].has
                        THEN [acc.ents[i] EXCEPT !.connected = TRUE,
                                                 !.info = acc.ins[i].info]
                        ELSE acc.ents[i]]
    IN SpawnNew(inserted, acc.new, order)


\* ------------------------------------------------------------------ network tick
\* process_player_mining (server.rs:260-291): every entity with a
\* ClientAddress and a PlayerInput, connected or not
RECURSIVE MineAll(_, _)
MineAll(ents, t) ==
    IF ents = <<>> THEN t
    ELSE MineAll(Tail(ents),
                 IF Head(ents).input.mine
                 THEN destroy_block(Head(ents).input.block_x,
                                    Head(ents).input.block_y, t)
                 ELSE t)

\* enqueue_player_info (server.rs:696-729): the target first, then the other
\* connected players in query order
PlayersFor(ents, i) ==
    LET info(e) == [addr |-> e.addr, depth |-> e.depth]
        others == SelectSeq(ents, LAMBDA e : e.connected /\ e.addr # ents[i].addr)
        own == SelectSeq(ents, LAMBDA e : e.connected /\ e.addr = ents[i].addr)
    IN [k \in 1..(Len(own) + Len(others)) |->
           IF k <= Len(own) THEN info(own[Len(own) + 1 - k])
           ELSE info(others[k - Len(own)])]

enqueue_player_info(ents) ==
    [i \in DOMAIN ents |->
        IF ents[i].connected
        THEN [ents[i] EXCEPT !.info.bodies = Append(@, PlayerInfo(PlayersFor(ents, i)))]
        ELSE ents[i]]

\* enqueue_terrain (server.rs:685-691): the list goes into the next packet and
\* is recorded under the current sequence
RecordAndQueueUnderNext(info, seq, world_changes) ==
    [info EXCEPT !.bodies = Append(@, WorldDeltas(world_changes)),
                 !.deltas = MapInsert(@, seq + 1, world_changes)]

RecordAndQueue(info, seq, world_changes) ==
    [info EXCEPT !.bodies = Append(@, WorldDeltas(world_changes)),
                 !.deltas = MapInsert(@, seq, world_changes)]

\* enqueue_terrain (server.rs:599-693) for every connected peer
enqueue_terrain(ents, canon, seq) ==
    [i \in DOMAIN ents |->
        IF ents[i].connected
        THEN [ents[i] EXCEPT !.info =
                 RecordAndQueue(@, seq,
                     WorldChanges(@.last_confirmed_terrain, canon, ents[i].depth))]
        ELSE ents[i]]

\* server.rs:636-643: building the baseline indexes past the canonical chunks
EnqueueTerrainPanics(ents, canon) ==
    \E i \in DOMAIN ents :
        /\ ents[i].connected
        /\ NeedsBaseline(ents[i].info.last_confirmed_terrain, ents[i].depth)
        /\ BaselinePanics(canon, ents[i].depth)

\* send_all_messages (server.rs:569-585): one packet per connected peer
PacketsFor(ents, seq) ==
    {[addr |-> ents[i].addr, message |-> ServerToClient(seq, ents[i].info.bodies)] :
        i \in {j \in DOMAIN ents : ents[j].connected}}

\* send_all_messages (server.rs:587-593): only Pongs stay queued
AfterSendKeepAll(ents) == ents

AfterSend(ents) ==
    [i \in DOMAIN ents |->
        IF ents[i].connected
        THEN [ents[i] EXCEPT !.info.bodies = SelectSeq(@, LAMBDA b : b.type = "Pong")]
        ELSE ents[i]]

DropCountsByTwo(ents) ==
    [i \in DOMAIN ents |->
        IF ~ents[i].connected THEN ents[i]
        ELSE IF ents[i].info.until_drop = 0
        THEN [ents[i] EXCEPT !.connected = FALSE,
                             !.info = DefaultConnectedClientInfo]
        ELSE [ents[i] EXCEPT !.info.until_drop = @ - 2]]

DropResetsInput(ents) ==
    [i \in DOMAIN ents |->
        IF ~ents[i].connected THEN ents[i]
        ELSE IF ents[i].info.until_drop = 0
        THEN [ents[i] EXCEPT !.connected = FALSE,
                             !.info = DefaultConnectedClientInfo,
                             !.input = DefaultInput]
        ELSE [ents[i] EXCEPT !.info.until_drop = @ - 1]]

\* drop_disconnected_clients (server.rs:732-751); the removed components are
\* gone when the stage ends
drop_disconnected_clients(ents) ==
    [i \in DOMAIN ents |->
        IF ~ents[i].connected THEN ents[i]
        ELSE IF ents[i].info.until_drop = 0
        THEN [ents[i] EXCEPT !.connected = FALSE,
                             !.info = DefaultConnectedClientInfo]
        ELSE [ents[i] EXCEPT !.info.until_drop = @ - 1]]


\* ------------------------------------------------------------------ client
\* Client::new (client.rs:53-62) and create_world (world.rs:65-77): the
\* client starts in game with the locally created surface chunk
NewClientState ==
    [state |-> "InGame",
     current_sequence |-> 0,
     last_received_sequence |-> 0,
     bodies |-> <<>>,
     terrain |-> NewTerrain(1)]

\* no client process in this specification
NoClient == [NewClientState EXCEPT !.state = "Absent"]

ClientPushBodyKeepsOldest(q, body) ==
    IF Len(q) > CLIENT_MESSAGE_QUEUE_SIZE THEN q ELSE Append(q, body)

\* fetch_messages (client.rs:333-340), one body
ClientPushBody(q, body) ==
    Append(PopWhileOver(q, CLIENT_MESSAGE_QUEUE_SIZE), body)

RECURSIVE ClientPushBodies(_, _)
ClientPushBodies(q, bodies) ==
    IF bodies = <<>> THEN q
    ELSE ClientPushBodies(ClientPushBody(q, Head(bodies)), Tail(bodies))

\* client.rs:329: only newer packets are processed
ClientAcceptsAny(c, message) == TRUE

ClientAccepts(c, message) ==
    message.header.sequence > c.last_received_sequence

ClientAfterPacketNoJump(c, message) ==
    [c EXCEPT !.last_received_sequence = message.header.sequence]

\* fetch_messages (client.rs:343-359): jump to the server's sequence and
\* remember it
ClientAfterPacket(c, message) ==
    [c EXCEPT !.current_sequence = message.header.sequence,
              !.last_received_sequence = message.header.sequence]

\* handle_messages (client.rs:387-488): the queue is drained; WorldDeltas
\* bodies change the terrain, Pong is logged, PlayerInfo moves sprites
RECURSIVE ClientHandleAll(_, _)
ClientHandleAll(t, q) ==
    IF q = <<>> THEN t
    ELSE ClientHandleAll(IF Head(q).type = "WorldDeltas"
                         THEN ClientApplyDeltas(t, Head(q).deltas)
                         ELSE t,
                         Tail(q))

TimedOutOnlyPast(c) ==
    c.current_sequence - c.last_received_sequence
        > FRAME_DIFFERENCE_BEFORE_DISCONNECT

\* client_timeout (client.rs:520-521)
TimedOut(c) ==
    c.current_sequence - c.last_received_sequence
        >= FRAME_DIFFERENCE_BEFORE_DISCONNECT

\* the client's network tick (client.rs:140-178): increase_tick
\* (199-205), queue_inputs (249-310), handle_messages (378-489), send_bodies
\* (491-513), client_timeout / on_timeout (516-534)
ClientNetworkTick(c, q, i) ==
    LET cur == c.current_sequence + 1
        bodies == Append(c.bodies, Input(i))
        packet == ClientToServer(cur, c.last_received_sequence, bodies)
        c1 == [c EXCEPT !.current_sequence = cur,
                        !.bodies = <<>>,
                        !.terrain = ClientHandleAll(c.terrain, q)]
    IN [client |-> IF TimedOut(c1) THEN [c1 EXCEPT !.state = "Menu"] ELSE c1,
        packet |-> packet]


\* ------------------------------------------------------------------ inputs
\* The environment of one behaviour: the addresses datagrams come from,
\* whether they carry Pings, the cells (global block_x, block_y) their
\* inputs mine, whether players move, and the sequence at which network
\* ticks stop.
Env(senders, pings, mining, moving, maxseq) ==
    [senders |-> senders, pings |-> pings, mining |-> mining,
     moving |-> moving, maxseq |-> maxseq]

MineInput(x, y) == [mine |-> TRUE, block_x |-> x, block_y |-> y]

Inputs(e) ==
    {DefaultInput} \cup
        {MineInput(xy[1], xy[2]) : xy \in e.mining}

\* the body lists of the datagrams the server is fed
BodyLists(e) ==
    {<<>>}
        \cup {<<Input(i)>> : i \in Inputs(e)}
        \cup (IF e.pings THEN {<<Ping>>, <<Input(DefaultInput), Ping>>} ELSE {})
        \cup (IF e.pings
              THEN {<<Input(MineInput(xy[1], xy[2])), Input(DefaultInput), Ping>> :
                        xy \in e.mining}
              ELSE {})

HasPing(bodies) == \E k \in DOMAIN bodies : bodies[k].type = "Ping"

\* any header values: acknowledgments of every sequence up to one past the
\* last the server can reach; current_sequence, which only a Ping uses,
\* below and above them
Datagrams(e) ==
    {[addr |-> a, message |-> ClientToServer(cur, lrs, bodies)] :
        a \in e.senders, cur \in {0, e.maxseq}, lrs \in 0..(e.maxseq + 1),
        bodies \in {b \in BodyLists(e) : TRUE}}

\* the datagrams one game tick receives: one, or a Ping and a bare
\* acknowledgment
Bursts(e) ==
    {<<d>> : d \in {f \in Datagrams(e) :
                      \/ HasPing(f.message.bodies)
                      \/ f.message.header.current_sequence = e.maxseq}}
        \cup {<<d1, d2>> :
                d1 \in {d \in Datagrams(e) :
                          /\ d.message.bodies = <<Ping>>
                          /\ d.message.header.current_sequence = e.maxseq},
                d2 \in {d \in Datagrams(e) :
                          /\ d.message.bodies = <<>>
                          /\ d.message.header.current_sequence = e.maxseq}}

\* the datagrams of the client that are on their way: each may arrive at
\* any time, any number of times, or never
ClientBursts(packets) == {<<[addr |-> 1, message |-> m]>> : m \in packets}

\* the enumeration orders of new_clients
Orders(e) ==
    IF 2 \in e.senders THEN {<<1, 2>>, <<2, 1>>} ELSE {<<1, 2>>}

\* the depths at which the player's window is generated terrain; chunk
\* generation (check_generate_new_chunks) runs before handle_movement
Depths(canon) == 0..((Len(canon) - 1) * CHUNK_HEIGHT - 1)

\* the outbound queues stay within the model's bound on Pongs
PongsBounded(ents) ==
    \A i \in DOMAIN ents :
        Len(SelectSeq(ents[i].info.bodies, LAMBDA b : b.type = "Pong")) <= MaxPongs

\* ------------------------------------------------------------------ actions
\* one game tick of the server: retrieve_messages (server.rs:295-334) fills
\* the queue from the socket, handle_messages (337-445) drains it
GameTick(bursts) ==
    /\ stage = "idle"
    /\ ~crashed
    /\ \E burst \in bursts, order \in Orders(env) :
          LET q == RetrieveAll(messages, burst)
          IN /\ entities' = handle_messages(entities, q, order)
             /\ seen' = Handled(entities, q).kinds
    /\ PongsBounded(entities')
    /\ UNCHANGED <<sequence, terrain, stage, done, sent, crashed, messages,
                   env, client, cmessages, c2s, s2c, replay, wire>>

\* handle_movement (player.rs:120-330) moves connected players; the physics
\* are out of scope, the player ends at any generated depth
HandleMovementTo(depths) ==
    /\ stage = "idle"
    /\ ~crashed
    /\ env.moving
    /\ \E i \in DOMAIN entities, d \in depths :
          /\ entities[i].connected
          /\ d # entities[i].depth
          /\ entities' = [entities EXCEPT ![i].depth = d]
    /\ UNCHANGED <<sequence, terrain, stage, done, sent, crashed, messages,
                   env, client, cmessages, c2s, s2c, replay, wire>>
    /\ seen' = {}

\* the player stays where the chunks of its range are generated
HandleMovement == HandleMovementTo(Depths(terrain))

IncreaseNetworkTickKeepsSequence ==
    /\ stage = "idle"
    /\ ~crashed
    /\ sequence < env.maxseq
    /\ stage' = "net"
    /\ done' = {}
    /\ UNCHANGED <<sequence, terrain, entities, sent, crashed, messages,
                   env, client, cmessages, c2s, s2c, replay, wire>>
    /\ seen' = {}

\* increase_network_tick (server.rs:255-258) opens the network stage
IncreaseNetworkTick ==
    /\ stage = "idle"
    /\ ~crashed
    /\ sequence < env.maxseq
    /\ sequence' = sequence + 1
    /\ stage' = "net"
    /\ done' = {}
    /\ UNCHANGED <<terrain, entities, sent, crashed, messages,
                   env, client, cmessages, c2s, s2c, replay, wire>>
    /\ seen' = {}

\* process_player_mining: after increase_network_tick, unordered otherwise
ProcessPlayerMining ==
    /\ stage = "net"
    /\ ~crashed
    /\ "mine" \notin done
    /\ terrain' = MineAll(entities, terrain)
    /\ done' = done \cup {"mine"}
    /\ UNCHANGED <<sequence, entities, stage, sent, crashed, messages,
                   env, client, cmessages, c2s, s2c, replay, wire>>
    /\ seen' = {}

\* enqueue_player_info: after increase_network_tick, before send_all_messages
EnqueuePlayerInfo ==
    /\ stage = "net"
    /\ ~crashed
    /\ "info" \notin done
    /\ entities' = enqueue_player_info(entities)
    /\ done' = done \cup {"info"}
    /\ UNCHANGED <<sequence, terrain, stage, sent, crashed, messages,
                   env, client, cmessages, c2s, s2c, replay, wire>>
    /\ seen' = {}

\* enqueue_terrain: after increase_network_tick, before send_all_messages
EnqueueTerrain ==
    /\ stage = "net"
    /\ ~crashed
    /\ "terrain" \notin done
    /\ IF EnqueueTerrainPanics(entities, terrain)
       THEN /\ crashed' = TRUE
            /\ UNCHANGED <<entities, done>>
       ELSE /\ entities' = enqueue_terrain(entities, terrain, sequence)
            /\ done' = done \cup {"terrain"}
            /\ UNCHANGED crashed
    /\ UNCHANGED <<sequence, terrain, stage, sent, messages,
                   env, client, cmessages, c2s, s2c, replay, wire>>
    /\ seen' = {}

\* send_all_messages: after enqueue_terrain and enqueue_player_info
SendAllMessages ==
    /\ stage = "net"
    /\ ~crashed
    /\ {"info", "terrain"} \subseteq done
    /\ "send" \notin done
    /\ sent' = PacketsFor(entities, sequence)
    /\ s2c' = IF client.state = "Absent" THEN s2c
              ELSE s2c \cup {p.message : p \in PacketsFor(entities, sequence)}
    /\ entities' = AfterSend(entities)
    /\ done' = done \cup {"send"}
    /\ UNCHANGED <<sequence, terrain, stage, crashed, messages,
                   env, client, cmessages, c2s, replay, wire>>
    /\ seen' = {}

\* drop_disconnected_clients: after send_all_messages; the stage ends when
\* every system of it has run
DropDisconnectedClients ==
    /\ stage = "net"
    /\ ~crashed
    /\ {"send", "mine"} \subseteq done
    /\ entities' = drop_disconnected_clients(entities)
    /\ stage' = "idle"
    /\ done' = {}
    /\ UNCHANGED <<sequence, terrain, sent, crashed, messages,
                   env, client, cmessages, c2s, s2c, replay, wire>>
    /\ seen' = {}

\* no replay experiment in this specification
NoReplay == [step |-> 0]

\* no codec experiment and no datagram bytes in this specification
NoWire == [step |-> 0]

InitServer(num_chunks) ==
    /\ sequence = 1
    /\ terrain = NewTerrain(num_chunks)
    /\ entities = <<>>
    /\ stage = "idle"
    /\ done = {}
    /\ sent = {}
    /\ crashed = FALSE
    /\ messages = <<>>

\* the server fed with datagrams of any header values from one address
Init ==
    /\ InitServer(NumChunks)
    /\ env = Env({1}, TRUE, {<<1, 0>>}, TRUE, MaxSeq)
    /\ client = NoClient
    /\ cmessages = <<>>
    /\ c2s = {}
    /\ s2c = {}
    /\ replay = NoReplay
    /\ wire = NoWire
    /\ seen = {}

Next ==
    \/ GameTick(Bursts(env))
    \/ HandleMovement
    \/ IncreaseNetworkTick
    \/ ProcessPlayerMining
    \/ EnqueuePlayerInfo
    \/ EnqueueTerrain
    \/ SendAllMessages
    \/ DropDisconnectedClients

Spec == Init /\ [][Next]_vars


\* ------------------------------------------------------------------ end to end
\* fetch_messages (client.rs:321-373), one datagram from the server: bodies
\* of a newer packet are queued, an older packet is ignored
ClientFetch ==
    /\ client.state = "InGame"
    /\ \E p \in s2c :
          IF ClientAccepts(client, p)
          THEN /\ cmessages' = ClientPushBodies(cmessages, p.bodies)
               /\ client' = ClientAfterPacket(client, p)
          ELSE UNCHANGED <<client, cmessages>>
    /\ UNCHANGED <<serverVars, messages, env, c2s, s2c, replay, wire>>
    /\ seen' = {}

\* the client's network tick; the input is whatever the player does
ClientTick ==
    /\ client.state = "InGame"
    /\ Cardinality(c2s) < MaxClientPackets
    /\ \E i \in Inputs(env) :
          LET r == ClientNetworkTick(client, cmessages, i)
          IN /\ client' = r.client
             /\ c2s' = c2s \cup {r.packet}
    /\ cmessages' = <<>>
    /\ UNCHANGED <<serverVars, messages, env, s2c, replay, wire>>
    /\ seen' = {}

\* one honest client and the server, over a network that loses, repeats and
\* reorders packets
InitE2E ==
    /\ InitServer(NumChunks + 1)
    /\ env = Env({1}, FALSE, {}, TRUE, MaxSeq + 1)
    /\ client = NewClientState
    /\ cmessages = <<>>
    /\ c2s = {}
    /\ s2c = {}
    /\ replay = NoReplay
    /\ wire = NoWire
    /\ seen = {}

NextE2E ==
    \/ GameTick(ClientBursts(c2s))
    \/ HandleMovement
    \/ IncreaseNetworkTick
    \/ ProcessPlayerMining
    \/ EnqueuePlayerInfo
    \/ EnqueueTerrain
    \/ SendAllMessages
    \/ DropDisconnectedClients
    \/ ClientFetch
    \/ ClientTick

SpecE2E == InitE2E /\ [][NextE2E]_vars


\* ------------------------------------------------------------------ queues
\* The inbound queues, one push at a time: the server is fed bare
\* acknowledgments, the client packets of one body, so that every receive
\* is one push.
QueueDatagrams(e) ==
    {d \in Datagrams(e) :
        /\ d.message.bodies = <<>>
        /\ d.message.header.current_sequence = e.maxseq}

ServerPackets(e) ==
    {ServerToClient(s, <<b>>) :
        s \in 1..(e.maxseq + 1), b \in {Pong(0), WorldDeltas(<<>>)}}

\* retrieve_messages (server.rs:297-333), one datagram off the socket
RetrieveMessage ==
    /\ stage = "idle"
    /\ \E d \in QueueDatagrams(env) : messages' = PushMessage(messages, d)
    /\ UNCHANGED <<sequence, terrain, entities, stage, done, sent, crashed,
                   env, client, cmessages, c2s, s2c, replay, wire>>
    /\ seen' = {}

\* handle_messages (server.rs:337-445) drains the queue
HandleMessages ==
    /\ stage = "idle"
    /\ \E order \in Orders(env) :
          entities' = handle_messages(entities, messages, order)
    /\ seen' = Handled(entities, messages).kinds
    /\ messages' = <<>>
    /\ UNCHANGED <<sequence, terrain, stage, done, sent, crashed,
                   env, client, cmessages, c2s, s2c, replay, wire>>

InitQueue ==
    /\ InitServer(NumChunks)
    /\ env = Env({1}, FALSE, {}, FALSE, 1)
    /\ client = NewClientState
    /\ cmessages = <<>>
    /\ c2s = {}
    /\ s2c = ServerPackets(env)
    /\ replay = NoReplay
    /\ wire = NoWire
    /\ seen = {}

NextQueue ==
    \/ RetrieveMessage
    \/ HandleMessages
    \/ ClientFetch
    \/ ClientTick

SpecQueue == InitQueue /\ [][NextQueue]_vars

\* ------------------------------------------------------------------ replay
\* The replay of a delta list as a function of the terrain it is replayed
\* onto: the terrains are the windows of the generated terrain, whole and
\* mined, the lists every mix of NewChunks and BlockDelete up to MaxLen.
MaxLen == 2

ReplayTerrains ==
    LET whole == NewTerrain(NumChunks)
        mined == destroy_block(0, 0, whole)
    IN {EmptyTerrain, NewTerrain(1)}
           \cup {BaselineFor(t, d) : t \in {whole, mined}, d \in Depths(whole)}

ReplayDeltas ==
    {NewChunks(t) : t \in ReplayTerrains}
        \cup {BlockDelete(n, x, y) : n \in 0..(NumChunks - 1),
                                     x \in 0..(CHUNK_WIDTH - 1),
                                     y \in 0..(CHUNK_HEIGHT - 1)}

ReplayLists == UNION {[1..k -> ReplayDeltas] : k \in 0..MaxLen}

\* server.rs:485-503 and client.rs:391-441 run on the list once
ReplayOnce ==
    /\ replay.step = 1
    /\ replay' = [replay EXCEPT
                     !.step = 2,
                     !.server = ReplayChanges(replay.baseline, replay.changes),
                     !.client = ClientApplyDeltas(replay.baseline, replay.changes)]
    /\ UNCHANGED <<serverVars, messages, env, clientVars, seen, wire>>

\* the same list replayed onto the result (a duplicate delivery)
ReplayAgain ==
    /\ replay.step = 2
    /\ replay' = [replay EXCEPT
                     !.step = 3,
                     !.server_again = ReplayChanges(replay.server, replay.changes),
                     !.client_again = ClientApplyDeltas(replay.client, replay.changes)]
    /\ UNCHANGED <<serverVars, messages, env, clientVars, seen, wire>>

InitReplay ==
    /\ InitServer(NumChunks)
    /\ env = Env({}, FALSE, {}, FALSE, 1)
    /\ client = NoClient
    /\ cmessages = <<>>
    /\ c2s = {}
    /\ s2c = {}
    /\ seen = {}
    /\ wire = NoWire
    /\ \E b \in ReplayTerrains, l \in ReplayLists :
          replay = [step |-> 1, baseline |-> b, changes |-> l,
                    server |-> b, client |-> b,
                    server_again |-> b, client_again |-> b]

NextReplay ==
    \/ ReplayOnce
    \/ ReplayAgain

SpecReplay == InitReplay /\ [][NextReplay]_vars

\* ------------------------------------------------------------------ properties
Connected == {i \in DOMAIN entities : entities[i].connected}

\* the baseline holds every chunk of the window, and every chunk it holds
\* has exactly the canonical cells
Covers(held, canon, depth) ==
    /\ Window(depth) \subseteq ChunkNumbers(held)
    /\ \A k \in DOMAIN held : held[k] = canon[held[k].chunk_number + 1]

\* the baseline is exactly the canonical terrain restricted to the window
Restricted(held, canon, depth) ==
    /\ Covers(held, canon, depth)
    /\ ChunkNumbers(held) = Window(depth)

\* the recorded sequences whose list is what enqueue_terrain generates for
\* the peer's present baseline, window and canonical terrain
Current(i) ==
    {a \in Keys(entities[i].info.deltas) :
        /\ a > entities[i].info.last_ack
        /\ entities[i].info.deltas[a] =
              WorldChanges(entities[i].info.last_confirmed_terrain, terrain,
                           entities[i].depth)}

\* the baseline after the peer acknowledges sequence a
Acknowledged(i, a) ==
    process_client_message(entities[i].info, ClientToServer(a, a, <<>>),
                           entities[i].input).client.last_confirmed_terrain

\* C2 (as stated): once a peer acknowledges a list generated for its present
\* baseline, window and canonical terrain, last_confirmed_terrain equals the
\* canonical terrain restricted to the peer's relevant chunks.
C2_BaselineEqualsWindow ==
    \A i \in Connected : \A a \in Current(i) :
        Restricted(Acknowledged(i, a), terrain, entities[i].depth)

\* C2 (amended): once a peer acknowledges a list generated for its present
\* baseline, window and canonical terrain, last_confirmed_terrain holds
\* every chunk of the window and every chunk it holds, inside the window or
\* kept from an earlier one, has exactly the canonical cells.
C2_BaselineCoversWindow ==
    \A i \in Connected : \A a \in Current(i) :
        Covers(Acknowledged(i, a), terrain, entities[i].depth)

\* a peer that has acknowledged before holds a list with a BlockDelete,
\* generated for its present baseline, and a chunk outside its window
C2_Witness ==
    \E i \in Connected : \E a \in Current(i) :
        /\ entities[i].info.last_ack > 0
        /\ \E k \in DOMAIN entities[i].info.deltas[a] :
               entities[i].info.deltas[a][k].type = "BlockDelete"
        /\ ChunkNumbers(entities[i].info.last_confirmed_terrain)
               # Window(entities[i].depth)
        /\ Acknowledged(i, a) # entities[i].info.last_confirmed_terrain

\* C3: while a peer stays connected (one ConnectedClientInfo), no step
\* decreases its last_ack, whatever headers the handled messages carry.
C3_AckMonotonic ==
    [][\A i \in Connected :
          entities'[i].connected =>
              entities'[i].info.last_ack >= entities[i].info.last_ack]_vars

\* a game tick has handled an acknowledgment that is not newer than the
\* last_ack of a peer whose last_ack had advanced
C3_Witness ==
    /\ "stale" \in seen
    /\ \E i \in Connected : entities[i].info.last_ack >= 2

\* C4: a game tick whose messages all acknowledge a sequence less than or
\* equal to the peer's last_ack leaves the peer's last_confirmed_terrain,
\* deltas, last_ack and until_drop unchanged.
C4_StaleAckFrame ==
    [][seen' = {"stale"} =>
          \A i \in Connected :
              /\ entities'[i].info.last_confirmed_terrain
                    = entities[i].info.last_confirmed_terrain
              /\ entities'[i].info.deltas = entities[i].info.deltas
              /\ entities'[i].info.last_ack = entities[i].info.last_ack
              /\ entities'[i].info.until_drop = entities[i].info.until_drop]_vars

\* a game tick has handled only stale acknowledgments for a peer that holds
\* a baseline, recorded lists and a countdown that has run down
C4_Witness ==
    /\ seen = {"stale"}
    /\ \E i \in Connected :
          /\ entities[i].info.last_confirmed_terrain # EmptyTerrain
          /\ Keys(entities[i].info.deltas) # {}
          /\ entities[i].info.last_ack > 0
          /\ entities[i].info.until_drop < FRAME_DIFFERENCE_BEFORE_DISCONNECT

\* C5: a game tick whose messages all acknowledge a sequence greater than
\* last_ack for which the peer has no recorded list leaves the peer's
\* last_ack, baseline, pending map and countdown as they were, keeps what
\* was queued for the peer, and leaves its input as it was.
C5_UnrecordedAckFrame ==
    [][seen' = {"unrecorded"} =>
          \A i \in Connected :
              /\ entities'[i].info.last_ack = entities[i].info.last_ack
              /\ entities'[i].info.last_confirmed_terrain
                    = entities[i].info.last_confirmed_terrain
              /\ entities'[i].info.deltas = entities[i].info.deltas
              /\ entities'[i].info.until_drop = entities[i].info.until_drop
              /\ Len(entities'[i].info.bodies) >= Len(entities[i].info.bodies)
              /\ SubSeq(entities'[i].info.bodies, 1, Len(entities[i].info.bodies))
                    = entities[i].info.bodies
              /\ entities'[i].input = entities[i].input]_vars

\* C8: for every connected peer the pending map holds at most as many
\* entries as there were network ticks whose sequence is greater than the
\* peer's last_ack.
C8_PendingBounded ==
    \A i \in Connected :
        Cardinality(Keys(entities[i].info.deltas))
            <= Cardinality({s \in 2..sequence : s > entities[i].info.last_ack})

\* C10: every WorldDeltas body of a packet sent under sequence s has, when
\* it is sent, the entry deltas[s] of its peer equal to the list it carries.
C10_RecordBeforeSend ==
    "send" \in done =>
        \A p \in sent : \A k \in DOMAIN p.message.bodies :
            p.message.bodies[k].type = "WorldDeltas" =>
                LET info == entities[EntityAt(entities, p.addr)].info
                IN /\ p.message.header.sequence \in Keys(info.deltas)
                   /\ info.deltas[p.message.header.sequence]
                         = p.message.bodies[k].deltas

\* a packet with a BlockDelete in its WorldDeltas body has just been sent
C10_Witness ==
    /\ "send" \in done
    /\ \E p \in sent : \E k \in DOMAIN p.message.bodies :
          /\ p.message.bodies[k].type = "WorldDeltas"
          /\ \E j \in DOMAIN p.message.bodies[k].deltas :
                p.message.bodies[k].deltas[j].type = "BlockDelete"

\* the exchange with peer i has come to rest: every packet sent is
\* acknowledged and applied, nothing is recorded or queued, and the server
\* holds a baseline for which enqueue_terrain generates the empty list
Settled(i) ==
    /\ stage = "idle"
    /\ client.state = "InGame"
    /\ cmessages = <<>>
    /\ client.last_received_sequence = sequence
    /\ entities[i].info.last_ack = sequence
    /\ Covers(entities[i].info.last_confirmed_terrain, terrain, entities[i].depth)
    /\ WorldChanges(entities[i].info.last_confirmed_terrain, terrain,
                    entities[i].depth) = <<>>

\* C1: when the exchange with a connected peer has come to rest, with the
\* canonical terrain and the window as they are, the client's terrain holds
\* every chunk of the window with exactly the canonical cells.
C1_ClientViewConverged ==
    \A i \in Connected :
        Settled(i) =>
            \A n \in Window(entities[i].depth) :
                \E k \in DOMAIN client.terrain :
                    /\ client.terrain[k].chunk_number = n
                    /\ client.terrain[k] = terrain[n + 1]

\* C6: the inbound queue of the server and that of the client never hold
\* more than MESSAGE_QUEUE_SIZE entries.
C6_QueueBounded ==
    /\ Len(messages) <= MESSAGE_QUEUE_SIZE
    /\ Len(cmessages) <= CLIENT_MESSAGE_QUEUE_SIZE

\* C7: a push onto an inbound queue that holds MESSAGE_QUEUE_SIZE entries
\* removes the head and appends the pushed message behind the others, which
\* keep their order.
C7_PushEvictsOldest ==
    [][/\ (Len(messages) = MESSAGE_QUEUE_SIZE /\ messages' # messages
              /\ messages' # <<>>)
          => /\ Len(messages') = MESSAGE_QUEUE_SIZE
             /\ SubSeq(messages', 1, MESSAGE_QUEUE_SIZE - 1) = Tail(messages)
       /\ (Len(cmessages) = CLIENT_MESSAGE_QUEUE_SIZE /\ cmessages' # cmessages
              /\ cmessages' # <<>>)
          => /\ Len(cmessages') = CLIENT_MESSAGE_QUEUE_SIZE
             /\ SubSeq(cmessages', 1, CLIENT_MESSAGE_QUEUE_SIZE - 1)
                   = Tail(cmessages)]_vars

\* C9: replaying a delta list onto the result of replaying it yields the
\* terrain the first replay yielded, in the server's baseline replay and in
\* the client's terrain update.
C9_ReplayIdempotent ==
    replay.step = 3 =>
        /\ replay.server_again = replay.server
        /\ replay.client_again = replay.client

\* a list whose BlockDelete clears a cell of the terrain its NewChunks
\* brought has been replayed twice
C9_Witness ==
    /\ replay.step = 3
    /\ \E k, j \in DOMAIN replay.changes :
          /\ k < j
          /\ replay.changes[k].type = "NewChunks"
          /\ replay.changes[j].type = "BlockDelete"
          /\ replay.server # replay.changes[k].terrain
    /\ replay.server # replay.baseline
    /\ replay.client = replay.server


\* ------------------------------------------------------------------ lifetime
\* One peer over a whole connection lifetime: created, silent until it is
\* dropped, reconnected.  Network ticks run three past the disconnect
\* threshold.
LifeMaxSeq == FRAME_DIFFERENCE_BEFORE_DISCONNECT + 3

\* the datagrams of one game tick: one message that acknowledges nothing
\* (0) or the newest packet the server has sent, with or without an Input
LifeBursts ==
    {<<[addr |-> 1, message |-> ClientToServer(sequence + 1, lrs, bodies)]>> :
        lrs \in {0, sequence},
        bodies \in {<<>>} \cup {<<Input(i)>> : i \in Inputs(env)}}

\* the mined cell is outside the chunk (InvalidX): the input is not the
\* default and the terrain stays as generated
InitLife ==
    /\ InitServer(NumChunks)
    /\ env = Env({1}, FALSE, {<<CHUNK_WIDTH, 0>>}, TRUE, LifeMaxSeq)
    /\ client = NoClient
    /\ cmessages = <<>>
    /\ c2s = {}
    /\ s2c = {}
    /\ replay = NoReplay
    /\ wire = NoWire
    /\ seen = {}

NextLife ==
    \/ GameTick(LifeBursts)
    \/ HandleMovement
    \/ IncreaseNetworkTick
    \/ ProcessPlayerMining
    \/ EnqueuePlayerInfo
    \/ EnqueueTerrain
    \/ SendAllMessages
    \/ DropDisconnectedClients

SpecLife == InitLife /\ [][NextLife]_vars

\* ------------------------------------------------------------------ peers
\* Two addresses, up to two datagrams in a game tick, from the same address
\* or from both.
PeerDatagrams(e) ==
    {[addr |-> a, message |-> ClientToServer(e.maxseq, lrs, bodies)] :
        a \in e.senders, lrs \in 0..1,
        bodies \in {<<>>} \cup {<<Input(i)>> : i \in Inputs(e)}}

PeerBursts(e) ==
    {<<d>> : d \in PeerDatagrams(e)}
        \cup {<<d1, d2>> : d1 \in PeerDatagrams(e), d2 \in PeerDatagrams(e)}

InitPeers ==
    /\ InitServer(NumChunks)
    /\ env = Env({1, 2}, FALSE, {<<CHUNK_WIDTH, 0>>}, FALSE, MaxSeq - 1)
    /\ client = NoClient
    /\ cmessages = <<>>
    /\ c2s = {}
    /\ s2c = {}
    /\ replay = NoReplay
    /\ wire = NoWire
    /\ seen = {}

NextPeers ==
    \/ GameTick(PeerBursts(env))
    \/ IncreaseNetworkTick
    \/ ProcessPlayerMining
    \/ EnqueuePlayerInfo
    \/ EnqueueTerrain
    \/ SendAllMessages
    \/ DropDisconnectedClients

SpecPeers == InitPeers /\ [][NextPeers]_vars

\* ------------------------------------------------------------------ C11..C20
\* the chunks of every NewChunks of a recorded list
SentChunks(changes) ==
    UNION {Range(changes[k].terrain) :
              k \in {j \in DOMAIN changes : changes[j].type = "NewChunks"}}

\* C11: when a game tick leaves a connected peer with a last_ack s greater
\* than before, and the list recorded (and sent) under s held a NewChunks,
\* the peer's last_confirmed_terrain afterwards holds a copy of every chunk
\* of that NewChunks, cell for cell as sent, and deltas has no key s.
C11_AckedNewChunksInBaseline ==
    [][\A i \in Connected :
          LET old == entities[i].info
              new == entities'[i].info
          IN (/\ entities'[i].connected
              /\ new.last_ack > old.last_ack
              /\ new.last_ack \in Keys(old.deltas)
              /\ SentChunks(old.deltas[new.last_ack]) # {})
             => /\ SentChunks(old.deltas[new.last_ack])
                      \subseteq Range(new.last_confirmed_terrain)
                /\ new.last_ack \notin Keys(new.deltas)]_vars

\* a game tick has handled the acknowledgment of a recorded NewChunks: the
\* peer's baseline is the window as sent and nothing at or below last_ack
\* is pending
C11_Witness ==
    /\ seen = {"recorded"}
    /\ \E i \in Connected :
          /\ entities[i].info.last_ack >= 2
          /\ entities[i].info.last_confirmed_terrain
                = BaselineFor(NewTerrain(NumChunks), entities[i].depth)
          /\ \A k \in Keys(entities[i].info.deltas) :
                 k > entities[i].info.last_ack

\* the packets of the last send_all_messages that go to entity i under the
\* present sequence with a WorldDeltas body
DeltaPackets(i) ==
    {p \in sent :
        /\ p.addr = entities[i].addr
        /\ p.message.header.sequence = sequence
        /\ \E k \in DOMAIN p.message.bodies :
               p.message.bodies[k].type = "WorldDeltas"}

InputAt(message) ==
    {k \in DOMAIN message.bodies : message.bodies[k].type = "Input"}

\* the PlayerInput of entity i after its peer processes message m
InputAfter(i, m) ==
    process_client_message(entities[i].info, m, entities[i].input).input

\* C17: for every connected peer and every message, the PlayerInput after
\* processing is the input of the message's last Input body when the message
\* acknowledges more than last_ack and carries an Input, and the PlayerInput
\* as it was otherwise; and no step changes the PlayerInput of an entity
\* except a game tick that handled a message acknowledging more than
\* last_ack.
C17_InputOnlyInOrder ==
    /\ [](\A i \in Connected : \A d \in Datagrams(env) :
            LET m == d.message
            IN IF /\ m.header.last_received_sequence > entities[i].info.last_ack
                  /\ InputAt(m) # {}
               THEN \E k \in InputAt(m) :
                       /\ \A j \in InputAt(m) : j <= k
                       /\ InputAfter(i, m) = m.bodies[k].input
               ELSE InputAfter(i, m) = entities[i].input)
    /\ [][\A i \in DOMAIN entities :
             entities'[i].input # entities[i].input =>
                 seen' \cap {"recorded", "unrecorded", "rejoin"} # {}]_vars

\* a game tick has handled only acknowledgments greater than last_ack and
\* left a peer whose input mines, and a message with two different Input
\* bodies that acknowledges more would change that input
C17_Witness ==
    /\ seen \subseteq {"recorded", "unrecorded"}
    /\ seen # {}
    /\ \E i \in Connected :
          /\ entities[i].input.mine
          /\ \E d \in Datagrams(env) :
                 /\ Cardinality({d.message.bodies[k] : k \in InputAt(d.message)}) = 2
                 /\ InputAfter(i, d.message) # entities[i].input

\* messages with a Ping and a header as a client builds it: its
\* current_sequence is ahead of what it acknowledges (client.rs:199-205,
\* 343-359)
PingMessages ==
    {ClientToServer(h[1], h[2], <<Ping>>) :
        h \in {g \in (1..(MaxSeq + 1)) \X (0..MaxSeq) : g[2] < g[1]}}

\* C18: for every connected peer and every message that carries a Ping,
\* whatever it acknowledges, the peer's outbound queue after processing
\* holds a Pong with the message's header.current_sequence.
C18_PingAnswered ==
    \A i \in Connected : \A m \in PingMessages :
        Pong(m.header.current_sequence) \in
            Range(process_client_message(entities[i].info, m,
                                         entities[i].input).client.bodies)

C20_ClientSequenceIncreasing ==
    [][\A p \in c2s' \ c2s : \A q \in c2s :
          p.header.current_sequence > q.header.current_sequence]_vars

\* the network ticks that have run since peer i last had an acknowledgment
\* accepted; under SpecLife an acknowledgment other than 0 names the
\* sequence at which it is sent, so last_ack > 0 is that sequence
QuietTicks(i) == sequence - entities[i].info.last_ack

\* C14: when a network tick ends, no peer is connected whose last accepted
\* acknowledgment lies FRAME_DIFFERENCE_BEFORE_DISCONNECT or more network
\* ticks back.
C14_DroppedWithinThreshold ==
    stage = "idle" =>
        \A i \in Connected :
            entities[i].info.last_ack > 0 =>
                QuietTicks(i) < FRAME_DIFFERENCE_BEFORE_DISCONNECT

\* connection state without a baseline and without recorded lists
Fresh(info) ==
    /\ info.last_confirmed_terrain = EmptyTerrain
    /\ Keys(info.deltas) = {}

\* C15: a game tick that handles a datagram from the address of a dropped
\* peer spawns no entity and leaves that entity connected with an empty
\* baseline, an empty pending map and the full countdown; that state stays
\* without baseline and pending lists until the next network tick, whose
\* enqueue_terrain records for it, under the new sequence, exactly one
\* NewChunks with the chunks of the peer's window.
C15_ReconnectGetsFullBaseline ==
    [][\A i \in DOMAIN entities :
          /\ (~entities[i].connected /\ entities'[i].connected) =>
                /\ DOMAIN entities' = DOMAIN entities
                /\ Fresh(entities'[i].info)
                /\ entities'[i].info.until_drop
                      = FRAME_DIFFERENCE_BEFORE_DISCONNECT
          /\ (/\ stage = "idle"
              /\ stage' = "idle"
              /\ entities[i].connected
              /\ Fresh(entities[i].info)) => Fresh(entities'[i].info)
          /\ (/\ "terrain" \notin done
              /\ "terrain" \in done'
              /\ entities[i].connected
              /\ Fresh(entities[i].info)) =>
                /\ Keys(entities'[i].info.deltas) = {sequence}
                /\ entities'[i].info.deltas[sequence]
                      = <<NewChunks(BaselineFor(terrain, entities[i].depth))>>
                /\ ChunkNumbers(BaselineFor(terrain, entities[i].depth))
                      = Window(entities[i].depth)]_vars

\* a game tick has just reconnected a dropped peer that had moved down and
\* been mining before it was dropped
C15_Witness ==
    /\ seen = {"rejoin"}
    /\ \E i \in Connected :
          /\ Fresh(entities[i].info)
          /\ entities[i].info.until_drop = FRAME_DIFFERENCE_BEFORE_DISCONNECT
          /\ entities[i].depth > 0

\* the components of entity i that outlive a connection
Durable(ents, i) ==
    [addr |-> ents[i].addr, depth |-> ents[i].depth, input |-> ents[i].input]

\* C16: the step that drops a peer, every step while it is dropped, and
\* the step that reconnects it keep the entity, its ClientAddress and its
\* PlayerPosition; the drop and every step while it is dropped keep its
\* PlayerInput as well, and the reconnecting step changes the PlayerInput
\* only by processing the reconnecting message.
C16_SoftDisconnect ==
    [][/\ DOMAIN entities \subseteq DOMAIN entities'
       /\ \A i \in DOMAIN entities :
             /\ ~entities'[i].connected =>
                    Durable(entities', i) = Durable(entities, i)
             /\ (~entities[i].connected /\ entities'[i].connected) =>
                    /\ entities'[i].addr = entities[i].addr
                    /\ entities'[i].depth = entities[i].depth
                    /\ entities'[i].input # entities[i].input =>
                           "rejoin" \in seen']_vars

\* a peer that moved down and was mining has been dropped and then
\* reconnected by a message that acknowledges 0: position and input are
\* those it had
C16_Witness ==
    /\ seen = {"rejoin"}
    /\ \E i \in Connected :
          /\ entities[i].depth > 0
          /\ entities[i].input.mine
          /\ entities[i].info.last_ack = 0

\* the peer that is left when message m1 and then message m2 are processed
\* on one default ConnectedClientInfo and one default PlayerInput
InArrivalOrder(addr, m1, m2) ==
    LET first == process_client_message(DefaultConnectedClientInfo, m1,
                                        DefaultInput)
        second == process_client_message(first.client, m2, first.input)
    IN Entity(addr, TRUE, second.client, second.input, 0)

\* C13: no two entities carry the same ClientAddress, and for every
\* address without an entity and every two datagrams from it in one game
\* tick, handle_messages adds exactly one entity: the peer that results
\* from processing the first and then the second on one fresh connection
\* state.
C13_OneNewPeerPerAddress ==
    /\ \A i \in DOMAIN entities : \A j \in DOMAIN entities :
           entities[i].addr = entities[j].addr => i = j
    /\ \A d1 \in PeerDatagrams(env) : \A d2 \in PeerDatagrams(env) :
           (d1.addr = d2.addr /\ EntityAt(entities, d1.addr) = 0) =>
               \A order \in Orders(env) :
                   handle_messages(entities, <<d1, d2>>, order)
                       = Append(entities,
                                InArrivalOrder(d1.addr, d1.message, d2.message))

\* a game tick has handled two datagrams from addresses without an entity,
\* one acknowledging 0 and one acknowledging 1, and there is one entity:
\* both came from one address and were processed on one new peer
C13_Witness ==
    /\ seen = {"new", "new0"}
    /\ Len(entities) = 1
    /\ entities[1].connected
    /\ entities[1].info.last_ack = 1
    /\ entities[1].input.mine


\* ------------------------------------------------------------------ C21..C30
\* the step is the enqueue_terrain of a network tick
EnqueueTerrainStep == "terrain" \notin done /\ "terrain" \in done'

\* C26: when enqueue_terrain runs for a connected peer whose baseline lacks
\* a chunk of its window, the list it records under the sequence is exactly
\* one NewChunks whose terrain holds, for each chunk number of the window
\* and no other, one copy of the canonical chunk; there is no BlockDelete.
C26_NeedsBaselineRule ==
    [][EnqueueTerrainStep =>
          \A i \in Connected :
              NeedsBaseline(entities[i].info.last_confirmed_terrain,
                            entities[i].depth) =>
                  LET list == entities'[i].info.deltas[sequence]
                  IN /\ Len(list) = 1
                     /\ list[1].type = "NewChunks"
                     /\ Len(list[1].terrain) = Cardinality(Window(entities[i].depth))
                     /\ ChunkNumbers(list[1].terrain) = Window(entities[i].depth)
                     /\ \A k \in DOMAIN list[1].terrain :
                            list[1].terrain[k]
                                = terrain[list[1].terrain[k].chunk_number + 1]]_vars

\* enqueue_terrain has recorded a NewChunks for a peer that holds an
\* acknowledged baseline without a chunk of its present window, while a
\* canonical cell has been mined
C26_Witness ==
    /\ "terrain" \in done
    /\ terrain # NewTerrain(NumChunks)
    /\ \E i \in Connected :
          /\ entities[i].info.last_confirmed_terrain # EmptyTerrain
          /\ NeedsBaseline(entities[i].info.last_confirmed_terrain,
                           entities[i].depth)
          /\ sequence \in Keys(entities[i].info.deltas)
          /\ entities[i].info.deltas[sequence]
                = <<NewChunks(BaselineFor(terrain, entities[i].depth))>>

\* the cells a baseline holds and the canonical chunk of the same number
\* does not, as BlockDeletes
StaleCells(baseline, canon) ==
    {BlockDelete(baseline[k].chunk_number, x, y) :
        k \in DOMAIN baseline, x \in 0..(CHUNK_WIDTH - 1),
        y \in 0..(CHUNK_HEIGHT - 1)}
    \cap {d \in [type : {"BlockDelete"}, chunk_number : 0..(Len(canon) - 1),
                 x : 0..(CHUNK_WIDTH - 1), y : 0..(CHUNK_HEIGHT - 1)] :
            \E k \in DOMAIN baseline :
                /\ baseline[k].chunk_number = d.chunk_number
                /\ baseline[k].blocks[d.y + 1][d.x + 1] # 0
                /\ canon[d.chunk_number + 1].blocks[d.y + 1][d.x + 1] = 0}

\* the list is one BlockDelete for each such cell and nothing else
DeleteOnly(list, baseline, canon) ==
    /\ Range(list) = StaleCells(baseline, canon)
    /\ Len(list) = Cardinality(StaleCells(baseline, canon))

\* the baseline with one more cell empty
WithoutCell(baseline, k, x, y) ==
    [baseline EXCEPT ![k].blocks[y + 1][x + 1] = 0]

\* C27: when enqueue_terrain runs for a connected peer whose baseline holds
\* every chunk of its window, the list it records holds no NewChunks and
\* exactly one BlockDelete for each cell that a baseline chunk holds and the
\* canonical chunk of that number does not, and nothing else; the same is
\* true of the list generated for that baseline with any one cell emptied,
\* so a cell the canonical chunk holds and the baseline does not yields no
\* delta.
C27_DeleteOnlyRule ==
    [][EnqueueTerrainStep =>
          \A i \in Connected :
              LET baseline == entities[i].info.last_confirmed_terrain
              IN ~NeedsBaseline(baseline, entities[i].depth) =>
                    /\ DeleteOnly(entities'[i].info.deltas[sequence],
                                  baseline, terrain)
                    /\ \A k \in DOMAIN baseline :
                       \A x \in 0..(CHUNK_WIDTH - 1) :
                       \A y \in 0..(CHUNK_HEIGHT - 1) :
                           DeleteOnly(
                               WorldChanges(WithoutCell(baseline, k, x, y),
                                            terrain, entities[i].depth),
                               WithoutCell(baseline, k, x, y), terrain)]_vars

\* enqueue_terrain has recorded a BlockDelete for a peer whose baseline
\* holds its window
C27_Witness ==
    /\ "terrain" \in done
    /\ \E i \in Connected :
          /\ ~NeedsBaseline(entities[i].info.last_confirmed_terrain,
                            entities[i].depth)
          /\ sequence \in Keys(entities[i].info.deltas)
          /\ entities[i].info.deltas[sequence] # <<>>
          /\ DeleteOnly(entities[i].info.deltas[sequence],
                        entities[i].info.last_confirmed_terrain, terrain)

\* C29: a step that leaves a connected peer with a greater last_ack a
\* leaves its pending map with exactly the entries whose key is greater
\* than a, each with its list unchanged; a step that leaves last_ack as it
\* is and the peer connected keeps every entry with its list unchanged.
C29_CumulativePrune ==
    [][\A i \in Connected :
          LET old == entities[i].info
              new == entities'[i].info
          IN entities'[i].connected =>
                /\ new.last_ack > old.last_ack =>
                      /\ Keys(new.deltas)
                            = {k \in Keys(old.deltas) : k > new.last_ack}
                      /\ \A k \in Keys(new.deltas) :
                             new.deltas[k] = old.deltas[k]
                /\ new.last_ack = old.last_ack =>
                      /\ Keys(old.deltas) \subseteq Keys(new.deltas)
                      /\ \A k \in Keys(old.deltas) :
                             new.deltas[k] = old.deltas[k]]_vars

\* a game tick has handled the acknowledgment of the older of two recorded
\* lists: the newer one is still pending
C29_Witness ==
    /\ seen = {"recorded"}
    /\ \E i \in Connected :
          /\ entities[i].info.last_ack = sequence - 1
          /\ Keys(entities[i].info.deltas) = {sequence}

\* C30: until_drop of a connected peer is always within
\* 0..FRAME_DIFFERENCE_BEFORE_DISCONNECT; a step that leaves the peer with
\* a greater last_ack leaves until_drop at the full value; the
\* drop_disconnected_clients of a network tick lowers a non-zero until_drop
\* by exactly one and removes the connection state of a peer whose
\* until_drop is zero; no other step changes until_drop.
C30_DropCountdown ==
    /\ [](\A i \in Connected :
            entities[i].info.until_drop
                \in 0..FRAME_DIFFERENCE_BEFORE_DISCONNECT)
    /\ [][\A i \in Connected :
             LET old == entities[i].info
                 new == entities'[i].info
             IN IF stage = "net" /\ stage' = "idle"
                THEN IF old.until_drop = 0
                     THEN ~entities'[i].connected
                     ELSE /\ entities'[i].connected
                          /\ new.until_drop = old.until_drop - 1
                ELSE /\ entities'[i].connected
                     /\ new.last_ack > old.last_ack =>
                           new.until_drop = FRAME_DIFFERENCE_BEFORE_DISCONNECT
                     /\ new.last_ack = old.last_ack =>
                           new.until_drop = old.until_drop]_vars

\* a network tick has ended with a connected peer whose countdown has run
\* down to zero
C30_Witness ==
    /\ stage = "idle"
    /\ \E i \in Connected :
          /\ entities[i].info.until_drop = 0
          /\ entities[i].info.last_ack > 0

\* the recorded sequences a game tick of up to two messages can have
\* accepted, in order, when it leaves last_ack at a
AckChains(info, a) ==
    {<<a>>} \cup {<<a1, a>> : a1 \in {k \in Keys(info.deltas) :
                                          info.last_ack < k /\ k < a}}

\* the baseline after the lists of a chain are replayed in order
ChainReplayed(info, chain) ==
    IF Len(chain) = 1
    THEN ReplayChanges(info.last_confirmed_terrain, info.deltas[chain[1]])
    ELSE ReplayChanges(
             ReplayChanges(info.last_confirmed_terrain, info.deltas[chain[1]]),
             info.deltas[chain[2]])

\* C22: last_ack, baseline and pending map of a peer change by an
\* acknowledgment only in a game tick, never between the systems of a
\* network tick; the game tick that leaves a peer with a greater last_ack
\* for which a list was recorded leaves it, in the same step, with that
\* list replayed onto the baseline and the pending map pruned; and
\* enqueue_terrain computes its list from the baseline of that state.
C22_AckBeforeDelta ==
    [][\A i \in Connected :
          LET old == entities[i].info
              new == entities'[i].info
          IN /\ (/\ entities'[i].connected
                 /\ \/ new.last_ack # old.last_ack
                    \/ new.last_confirmed_terrain # old.last_confirmed_terrain) =>
                   (stage = "idle" /\ stage' = "idle")
             /\ (/\ entities'[i].connected
                 /\ new.last_ack > old.last_ack
                 /\ new.last_ack \in Keys(old.deltas)) =>
                   /\ \E chain \in AckChains(old, new.last_ack) :
                          new.last_confirmed_terrain = ChainReplayed(old, chain)
                   /\ \A k \in Keys(new.deltas) : k > new.last_ack
             /\ EnqueueTerrainStep =>
                   new.deltas[sequence]
                       = WorldChanges(old.last_confirmed_terrain, terrain,
                                      entities[i].depth)]_vars

\* enqueue_terrain has recorded the empty list for a peer whose
\* acknowledgment of the list of the tick before was replayed onto its
\* baseline before this tick: the baseline is the canonical window with the
\* mined cell empty
C22_Witness ==
    /\ "terrain" \in done
    /\ terrain # NewTerrain(NumChunks)
    /\ \E i \in Connected :
          /\ entities[i].info.last_ack = sequence - 1
          /\ entities[i].info.last_confirmed_terrain
                = BaselineFor(terrain, entities[i].depth)
          /\ Keys(entities[i].info.deltas) = {sequence}
          /\ entities[i].info.deltas[sequence] = <<>>

\* a list of one delta has been replayed onto replay.baseline
ReplayedOne == replay.step >= 2 /\ Len(replay.changes) = 1

\* the baseline with the cell a BlockDelete addresses emptied, where the
\* baseline holds that chunk
CellCleared(baseline, delete) ==
    [k \in DOMAIN baseline |->
        IF baseline[k].chunk_number = delete.chunk_number
        THEN [baseline[k] EXCEPT !.blocks[delete.y + 1][delete.x + 1] = 0]
        ELSE baseline[k]]

\* replaying a BlockDelete changes at most the addressed cell, and nothing
\* when the chunk is not in the baseline or the cell is already empty
DeleteFrame(baseline, delete, after) ==
    /\ after = CellCleared(baseline, delete)
    /\ (\A k \in DOMAIN baseline :
           \/ baseline[k].chunk_number # delete.chunk_number
           \/ baseline[k].blocks[delete.y + 1][delete.x + 1] = 0)
          => after = baseline

\* C28 (as stated): replaying a NewChunks leaves every chunk of the
\* baseline whose number the delta does not hold in the baseline, unchanged;
\* replaying a BlockDelete changes at most the addressed cell and nothing
\* when the chunk is not in the baseline or the cell is already empty.
C28_ReplayKeepsOtherChunks ==
    ReplayedOne =>
        LET delta == replay.changes[1]
        IN IF delta.type = "NewChunks"
           THEN \A k \in DOMAIN replay.baseline :
                    replay.baseline[k].chunk_number
                            \notin ChunkNumbers(delta.terrain) =>
                        /\ replay.baseline[k] \in Range(replay.server)
                        /\ replay.baseline[k] \in Range(replay.client)
           ELSE /\ DeleteFrame(replay.baseline, delta, replay.server)
                /\ DeleteFrame(replay.baseline, delta, replay.client)

\* C28 (amended): replaying a NewChunks replaces the whole baseline by the
\* terrain of the delta, so that chunks the delta does not hold are gone;
\* replaying a BlockDelete changes at most the addressed cell and nothing
\* when the chunk is not in the baseline or the cell is already empty.
C28_ReplayReplacesBaseline ==
    ReplayedOne =>
        LET delta == replay.changes[1]
        IN IF delta.type = "NewChunks"
           THEN /\ replay.server = delta.terrain
                /\ replay.client = delta.terrain
           ELSE /\ DeleteFrame(replay.baseline, delta, replay.server)
                /\ DeleteFrame(replay.baseline, delta, replay.client)

\* a NewChunks without one of the baseline's chunks has been replayed
C28_Witness ==
    /\ ReplayedOne
    /\ replay.changes[1].type = "NewChunks"
    /\ \E k \in DOMAIN replay.baseline :
           replay.baseline[k].chunk_number
               \notin ChunkNumbers(replay.changes[1].terrain)
    /\ replay.server = replay.changes[1].terrain

\* ------------------------------------------------------------------ depth
\* One peer whose player reaches any generated row, the last chunk included:
\* its chunk range then names a chunk the canonical terrain does not hold.
GeneratedDepths(canon) == 0..(Len(canon) * CHUNK_HEIGHT - 1)

InitDeep ==
    /\ InitServer(NumChunks)
    /\ env = Env({1}, FALSE, {<<CHUNK_WIDTH, 0>>}, TRUE, MaxSeq)
    /\ client = NoClient
    /\ cmessages = <<>>
    /\ c2s = {}
    /\ s2c = {}
    /\ replay = NoReplay
    /\ wire = NoWire
    /\ seen = {}

NextDeep ==
    \/ GameTick(LifeBursts)
    \/ HandleMovementTo(GeneratedDepths(terrain))
    \/ IncreaseNetworkTick
    \/ ProcessPlayerMining
    \/ EnqueuePlayerInfo
    \/ EnqueueTerrain
    \/ SendAllMessages
    \/ DropDisconnectedClients

SpecDeep == InitDeep /\ [][NextDeep]_vars

\* C23: no system of a tick panics, whatever the datagrams, the player
\* positions and the canonical terrain, a chunk range that names a chunk the
\* terrain does not hold included.
C23_TickLoopNeverAborts == ~crashed

\* a connected player stands where its range passes the generated chunks
C23_RangePastTerrain ==
    \E i \in DOMAIN entities :
        /\ entities[i].connected
        /\ BaselinePanics(terrain, entities[i].depth)

\* a step of the client's network tick: the sequence advances by one and
\* nothing is received (an accepted packet raises last_received_sequence)
ClientTickStep ==
    /\ client.state = "InGame"
    /\ client'.current_sequence = client.current_sequence + 1
    /\ client'.last_received_sequence = client.last_received_sequence

\* the ticks since the newest packet the client accepted
ClientGap(c) == c.current_sequence - c.last_received_sequence

\* C21: a network tick of the client whose timeout check finds
\* current_sequence - last_received_sequence >= the disconnect threshold
\* leaves the body queue empty and the state Menu; the state becomes Menu in
\* no other step; in the Menu state the client sends no packet and changes
\* nothing.
C21_ClientTimeout ==
    [][/\ (/\ ClientTickStep
            /\ ClientGap(client') >= FRAME_DIFFERENCE_BEFORE_DISCONNECT)
            => (client'.state = "Menu" /\ client'.bodies = <<>>)
       /\ (client.state = "InGame" /\ client'.state = "Menu")
            => /\ ClientTickStep
               /\ ClientGap(client') >= FRAME_DIFFERENCE_BEFORE_DISCONNECT
       /\ client.state = "Menu"
            => (c2s' = c2s /\ client' = client)]_vars

\* the client timed out exactly at the threshold, after it sent packets,
\* and the server went on
C21_Witness ==
    /\ client.state = "Menu"
    /\ ClientGap(client) = FRAME_DIFFERENCE_BEFORE_DISCONNECT
    /\ client.bodies = <<>>
    /\ c2s # {}
    /\ sequence > 1

\* ------------------------------------------------------------------ codec
\* bincode under BINCODE_CONFIG (common.rs:14-18): little endian, variable
\* integer encoding, fixed arrays written with their length.  A layout names
\* the shape of a type as its derive(Encode, Decode) walks it; a value is
\* encoded to a sequence of bytes (0..255) and decoded from one.

\* the receive buffer of the model (common.rs:27 has 2^16 bytes)
BUFFER_SIZE == 12

RECURSIVE LittleEndian(_, _)
LittleEndian(n, k) ==
    IF k = 0 THEN <<>> ELSE <<n % 256>> \o LittleEndian(n \div 256, k - 1)

RECURSIVE FromLittleEndian(_)
FromLittleEndian(b) ==
    IF b = <<>> THEN 0 ELSE b[1] + 256 * FromLittleEndian(Tail(b))

EncodeVarintOneByte(n) == <<n % 256>>

\* an unsigned integer below 251 is one byte, else a marker (251: u16,
\* 252: u32) and the little-endian bytes; the model holds no wider value
EncodeVarint(n) ==
    IF n < 251 THEN <<n>>
    ELSE IF n < 65536 THEN <<251>> \o LittleEndian(n, 2)
    ELSE <<252>> \o LittleEndian(n, 4)

\* the signed integers are zigzag-coded, then written as unsigned
ZigZag(n) == IF n >= 0 THEN 2 * n ELSE (-2) * n - 1
UnZigZag(u) == IF u % 2 = 0 THEN u \div 2 ELSE -((u + 1) \div 2)

\* the result of a decode: DecodeError, or the value and the bytes after it
DecodeError == [ok |-> FALSE, value |-> <<>>, rest |-> <<>>]
Decoded(v, rest) == [ok |-> TRUE, value |-> v, rest |-> rest]

\* width: the bytes of the integer type that is read; the markers 251, 252,
\* 253 announce 2, 4, 8 bytes, a marker wider than the type is an error
DecodeVarint(b, width) ==
    IF b = <<>> THEN DecodeError
    ELSE IF b[1] < 251 THEN Decoded(b[1], Tail(b))
    ELSE IF b[1] > 253 THEN DecodeError
    ELSE LET k == 2 ^ (b[1] - 250)
         IN IF k > width THEN DecodeError
            ELSE IF Len(b) < 1 + k THEN DecodeError
            ELSE Decoded(FromLittleEndian(SubSeq(b, 2, 1 + k)),
                         SubSeq(b, 2 + k, Len(b)))

\* layouts of the primitive types
U64 == [t |-> "uint", width |-> 8]
Usize == [t |-> "uint", width |-> 8]
I16 == [t |-> "int", width |-> 2]
Bool == [t |-> "bool"]
F32 == [t |-> "f32"]

\* layouts of the derived types: fields in declaration order, variants in
\* declaration order, numbered from 0
Struct(names, fields) == [t |-> "struct", names |-> names, fields |-> fields]
Enum(variants) == [t |-> "enum", variants |-> variants]
OptionOf(s) == [t |-> "option", of |-> s]
ArrayOf(n, s) == [t |-> "array", n |-> n, of |-> s]
VecOf(s) == [t |-> "vec", of |-> s]
Unit == Struct(<<>>, <<>>)

\* world.rs:581-599 BlockType: sixteen variants without fields
BlockTypeLayout == Enum([k \in 1..16 |-> Unit])

\* world.rs:517-563 Block: hand-written Encode and Decode
BlockLayout == [t |-> "Block"]

\* world.rs:141-148 Chunk
ChunkLayout ==
    Struct(<<"blocks", "rendered", "chunk_number">>,
           <<ArrayOf(CHUNK_HEIGHT, ArrayOf(CHUNK_WIDTH, OptionOf(BlockLayout))),
             Bool, U64>>)

\* world.rs:445-460 OreType and Vein
VeinLayout ==
    Struct(<<"ore_type", "chunk_number", "start_x", "start_y",
             "end_x", "end_y", "thickness_sq">>,
           <<Enum(<<Unit>>), U64, Usize, Usize, I16, I16, F32>>)

\* world.rs:469-474 Cave
CaveLayout ==
    Struct(<<"block_type", "chunk_number", "cave_map">>,
           <<BlockTypeLayout, U64,
             ArrayOf(CHUNK_HEIGHT, ArrayOf(CHUNK_WIDTH, F32))>>)

\* world.rs:91-101 Terrain
TerrainLayout ==
    Struct(<<"chunks", "veins", "caves">>,
           <<VecOf(ChunkLayout), VecOf(VeinLayout), VecOf(CaveLayout)>>)

\* player.rs:40-48 PlayerInput
PlayerInputLayout ==
    Struct(<<"left", "right", "jump", "mine", "block_x", "block_y">>,
           <<Bool, Bool, Bool, Bool, Usize, Usize>>)

\* common.rs:106-113 ClientBodyElem: Ping, Input(PlayerInput)
ClientBodyElemLayout == Enum(<<Unit, PlayerInputLayout>>)

\* common.rs:89-103 ClientToServer and ClientHeader
ClientToServerLayout ==
    Struct(<<"header", "bodies">>,
           <<Struct(<<"current_sequence", "last_received_sequence">>,
                    <<U64, U64>>),
             VecOf(ClientBodyElemLayout)>>)

RECURSIVE Encode(_, _)
RECURSIVE EncodeFields(_, _, _)
RECURSIVE EncodeEach(_, _)

\* a Block is written as its block_type alone (world.rs:544-552), an Option
\* as 0 or 1 and the value, an enum as its variant number and the variant's
\* fields, an array and a Vec as their length and their elements
Encode(s, v) ==
    CASE s.t = "uint" -> EncodeVarint(v)
      [] s.t = "int" -> EncodeVarint(ZigZag(v))
      [] s.t = "bool" -> IF v THEN <<1>> ELSE <<0>>
      [] s.t = "f32" -> v
      [] s.t = "Block" -> Encode(BlockTypeLayout, v.block_type)
      [] s.t = "option" ->
            IF v = <<>> THEN <<0>> ELSE <<1>> \o Encode(s.of, v[1])
      [] s.t = "enum" ->
            EncodeVarint(v.variant)
                \o Encode(s.variants[v.variant + 1], v.payload)
      [] s.t = "struct" -> EncodeFields(s, v, 1)
      [] s.t = "array" -> EncodeVarint(s.n) \o EncodeEach(s.of, v)
      [] s.t = "vec" -> EncodeVarint(Len(v)) \o EncodeEach(s.of, v)

EncodeFields(s, v, i) ==
    IF i > Len(s.fields) THEN <<>>
    ELSE Encode(s.fields[i], v[s.names[i]]) \o EncodeFields(s, v, i + 1)

EncodeEach(s, vs) ==
    IF vs = <<>> THEN <<>>
    ELSE Encode(s, Head(vs)) \o EncodeEach(s, Tail(vs))

RECURSIVE Decode(_, _)
RECURSIVE DecodeFields(_, _, _, _)
RECURSIVE DecodeEach(_, _, _, _)

\* a decoded Block has no entity (world.rs:554-563); a bool and an Option
\* tag other than 0 and 1, a variant number the enum does not have, an
\* array length other than the type's, and bytes that end early are errors
Decode(s, b) ==
    CASE s.t = "uint" -> DecodeVarint(b, s.width)
      [] s.t = "int" ->
            LET r == DecodeVarint(b, s.width)
            IN IF r.ok THEN Decoded(UnZigZag(r.value), r.rest)
               ELSE DecodeError
      [] s.t = "bool" ->
            IF b = <<>> THEN DecodeError
            ELSE IF b[1] > 1 THEN DecodeError
            ELSE Decoded(b[1] = 1, Tail(b))
      [] s.t = "f32" ->
            IF Len(b) < 4 THEN DecodeError
            ELSE Decoded(SubSeq(b, 1, 4), SubSeq(b, 5, Len(b)))
      [] s.t = "Block" ->
            LET r == Decode(BlockTypeLayout, b)
            IN IF r.ok
               THEN Decoded([block_type |-> r.value, entity |-> <<>>], r.rest)
               ELSE DecodeError
      [] s.t = "option" ->
            IF b = <<>> THEN DecodeError
            ELSE IF b[1] = 0 THEN Decoded(<<>>, Tail(b))
            ELSE IF b[1] = 1
            THEN LET r == Decode(s.of, Tail(b))
                 IN IF r.ok THEN Decoded(<<r.value>>, r.rest) ELSE DecodeError
            ELSE DecodeError
      [] s.t = "enum" ->
            LET k == DecodeVarint(b, 4)
            IN IF ~k.ok THEN DecodeError
               ELSE IF k.value >= Len(s.variants) THEN DecodeError
               ELSE LET r == Decode(s.variants[k.value + 1], k.rest)
                    IN IF r.ok
                       THEN Decoded([variant |-> k.value, payload |-> r.value],
                                    r.rest)
                       ELSE DecodeError
      [] s.t = "struct" -> DecodeFields(s, b, 1, <<>>)
      [] s.t = "array" ->
            LET k == DecodeVarint(b, 8)
            IN IF ~k.ok THEN DecodeError
               ELSE IF k.value # s.n THEN DecodeError
               ELSE DecodeEach(s.of, s.n, k.rest, <<>>)
      [] s.t = "vec" ->
            LET k == DecodeVarint(b, 8)
            IN IF ~k.ok THEN DecodeError
               ELSE DecodeEach(s.of, k.value, k.rest, <<>>)

DecodeFields(s, b, i, acc) ==
    IF i > Len(s.fields)
    THEN Decoded([n \in Range(s.names) |->
                     acc[CHOOSE j \in DOMAIN s.names : s.names[j] = n]], b)
    ELSE LET r == Decode(s.fields[i], b)
         IN IF r.ok THEN DecodeFields(s, r.rest, i + 1, Append(acc, r.value))
            ELSE DecodeError

DecodeEach(s, n, b, acc) ==
    IF n = 0 THEN Decoded(acc, b)
    ELSE LET r == Decode(s, b)
         IN IF r.ok THEN DecodeEach(s, n - 1, r.rest, Append(acc, r.value))
            ELSE DecodeError

RECURSIVE PartialEq(_, _, _)

\* the derived PartialEq compares field by field; Block's compares the
\* block_type and ignores the entity (world.rs:535-541)
PartialEq(s, x, y) ==
    CASE s.t = "Block" -> x.block_type.variant = y.block_type.variant
      [] s.t = "option" ->
            /\ Len(x) = Len(y)
            /\ x # <<>> => PartialEq(s.of, x[1], y[1])
      [] s.t = "enum" ->
            /\ x.variant = y.variant
            /\ PartialEq(s.variants[x.variant + 1], x.payload, y.payload)
      [] s.t = "struct" ->
            \A i \in DOMAIN s.fields :
                PartialEq(s.fields[i], x[s.names[i]], y[s.names[i]])
      [] s.t \in {"array", "vec"} ->
            /\ Len(x) = Len(y)
            /\ \A i \in DOMAIN x : PartialEq(s.of, x[i], y[i])
      [] OTHER -> x = y

\* bincode::encode_to_vec and bincode::decode_from_slice (world.rs:946-978)
encode_to_vec(s, v) == Encode(s, v)
decode_from_slice(s, b) == Decode(s, b)

\* recv_from writes the datagram over the start of the buffer and leaves the
\* bytes after it as they were (server.rs:98)
recv_from(buffer, datagram) ==
    [i \in 1..BUFFER_SIZE |->
        IF i <= Len(datagram) THEN datagram[i] ELSE buffer[i]]

\* Server::get_one_message (server.rs:96-111): the received size is not
\* used, the message is decoded from the whole buffer
get_one_message(buffer, datagram) ==
    decode_from_slice(ClientToServerLayout, recv_from(buffer, datagram))

\* the values put through the codec
BlockTypeValue(k) == [variant |-> k, payload |-> <<>>]

CodecBlocks ==
    {[block_type |-> BlockTypeValue(k), entity |-> e] :
        k \in {0, 1, 15}, e \in {<<>>, <<7>>}}

CodecCells ==
    {<<>>,
     <<[block_type |-> BlockTypeValue(1), entity |-> <<>>]>>,
     <<[block_type |-> BlockTypeValue(15), entity |-> <<7>>]>>}

CodecChunks ==
    {[blocks |-> bs, rendered |-> r, chunk_number |-> n] :
        bs \in [1..CHUNK_HEIGHT -> [1..CHUNK_WIDTH -> CodecCells]],
        r \in BOOLEAN, n \in {0, 250, 251, 65535}}

\* the chunks of the terrains: empty, and every cell a rendered block
UniformChunk(cell, r, n) ==
    [blocks |-> [y \in 1..CHUNK_HEIGHT |-> [x \in 1..CHUNK_WIDTH |-> cell]],
     rendered |-> r, chunk_number |-> n]

CodecVeins ==
    {[ore_type |-> [variant |-> 0, payload |-> <<>>], chunk_number |-> 1,
      start_x |-> 1, start_y |-> 0, end_x |-> ex, end_y |-> 5,
      thickness_sq |-> <<0, 0, 128, 63>>] : ex \in {-30, 20, 130}}

CodecCaves ==
    {[block_type |-> BlockTypeValue(12), chunk_number |-> 300,
      cave_map |-> [y \in 1..CHUNK_HEIGHT |->
                       [x \in 1..CHUNK_WIDTH |-> <<0, 0, x, 191>>]]]}

CodecTerrains ==
    LET chunks == {UniformChunk(<<>>, FALSE, 0)}
                     \cup {UniformChunk(c, TRUE, 251) : c \in CodecCells}
    IN {[chunks |-> cs, veins |-> vs, caves |-> cv] :
           cs \in UNION {[1..k -> chunks] : k \in 0..MaxLen},
           vs \in {<<>>} \cup {<<v>> : v \in CodecVeins},
           cv \in {<<>>} \cup {<<c>> : c \in CodecCaves}}

PingValue == [variant |-> 0, payload |-> <<>>]
InputValue(mine, x, y) ==
    [variant |-> 1,
     payload |-> [left |-> FALSE, right |-> FALSE, jump |-> FALSE,
                  mine |-> mine, block_x |-> x, block_y |-> y]]

CodecMessages ==
    {[header |-> [current_sequence |-> 2, last_received_sequence |-> lrs],
      bodies |-> bodies] :
        lrs \in 0..1,
        bodies \in {<<>>, <<PingValue>>, <<InputValue(FALSE, 0, 0)>>,
                    <<InputValue(TRUE, 1, 0)>>,
                    <<PingValue, InputValue(TRUE, 1, 0)>>}}

LayoutOf(kind) ==
    CASE kind = "Block" -> BlockLayout
      [] kind = "Chunk" -> ChunkLayout
      [] kind = "Terrain" -> TerrainLayout
      [] kind = "ClientToServer" -> ClientToServerLayout

\* the datagrams the socket yields: the encodings of the messages, whole
\* and cut short
Prefixes(b) == {SubSeq(b, 1, k) : k \in 0..Len(b)}
ClientEncodings == {encode_to_vec(ClientToServerLayout, m) : m \in CodecMessages}
CodecDatagrams == UNION {Prefixes(b) : b \in ClientEncodings}

\* how many datagrams a behaviour receives
MaxDatagrams == 2

\* bincode::encode_to_vec of the value
EncodeToVec ==
    /\ wire.step = 1
    /\ wire' = [wire EXCEPT
                   !.step = 2,
                   !.bytes = encode_to_vec(LayoutOf(wire.kind), wire.value)]
    /\ UNCHANGED <<serverVars, messages, env, clientVars, replay, seen>>

\* bincode::decode_from_slice of the encoding
DecodeFromSlice ==
    /\ wire.step = 2
    /\ wire' = [wire EXCEPT
                   !.step = 3,
                   !.decoded = decode_from_slice(LayoutOf(wire.kind), wire.bytes)]
    /\ UNCHANGED <<serverVars, messages, env, clientVars, replay, seen>>

\* the server's socket yields one datagram
GetOneMessage ==
    /\ wire.step = 3
    /\ wire.kind = "ClientToServer"
    /\ wire.received < MaxDatagrams
    /\ \E d \in CodecDatagrams :
          wire' = [wire EXCEPT
                      !.received = wire.received + 1,
                      !.datagram = d,
                      !.buffer = recv_from(wire.buffer, d),
                      !.message = get_one_message(wire.buffer, d)]
    /\ UNCHANGED <<serverVars, messages, env, clientVars, replay, seen>>

InitCodec ==
    /\ InitServer(NumChunks)
    /\ env = Env({}, FALSE, {}, FALSE, 1)
    /\ client = NoClient
    /\ cmessages = <<>>
    /\ c2s = {}
    /\ s2c = {}
    /\ seen = {}
    /\ replay = NoReplay
    /\ \E kind \in {"Block", "Chunk", "Terrain", "ClientToServer"} :
          \E v \in (CASE kind = "Block" -> CodecBlocks
                      [] kind = "Chunk" -> CodecChunks
                      [] kind = "Terrain" -> CodecTerrains
                      [] kind = "ClientToServer" -> CodecMessages) :
              wire = [step |-> 1, kind |-> kind, value |-> v,
                      bytes |-> <<>>, decoded |-> DecodeError,
                      buffer |-> [i \in 1..BUFFER_SIZE |-> 0],
                      received |-> 0, datagram |-> <<>>,
                      message |-> DecodeError]

NextCodec ==
    \/ EncodeToVec
    \/ DecodeFromSlice
    \/ GetOneMessage

SpecCodec == InitCodec /\ [][NextCodec]_vars

\* C24: the bytes encode_to_vec yields for a Block, a Chunk, a Terrain or a
\* message decode, with no byte left over, to a value equal to the encoded
\* one (equal as PartialEq compares: a Block's entity does not count).
C24_CodecRoundTrip ==
    wire.step = 3 =>
        /\ wire.decoded.ok
        /\ wire.decoded.rest = <<>>
        /\ PartialEq(LayoutOf(wire.kind), wire.decoded.value, wire.value)

\* a Terrain whose first chunk has a wide chunk number and blocks with
\* entities, with a vein of negative end_x, went through the codec
C24_Witness ==
    /\ wire.step = 3
    /\ wire.kind = "Terrain"
    /\ Len(wire.value.chunks) = MaxLen
    /\ wire.value.chunks[1].chunk_number > 250
    /\ wire.value.chunks[1].blocks[1][1] # <<>>
    /\ wire.value.chunks[1].blocks[1][1][1].entity # <<>>
    /\ wire.value.veins # <<>>
    /\ wire.value.veins[1].end_x < 0
    /\ wire.decoded.ok
    /\ wire.decoded.value # wire.value

\* C25: a datagram that is a strict prefix of the encoding of a message
\* yields DecodeError, whatever the buffer held before.
C25_TruncatedIsRejected ==
    \A b \in ClientEncodings :
        (/\ wire.step = 3
         /\ wire.received > 0
         /\ wire.datagram \in Prefixes(b)
         /\ wire.datagram # b)
            => ~wire.message.ok

\* ------------------------------------------------------------------ C31..C40
\* C40: in every client state current_sequence >= last_received_sequence,
\* so the unsigned subtraction of the timeout check does not underflow,
\* whether the accepted packets are ahead of or behind the client's counter.
C40_NoUnderflow ==
    client.current_sequence >= client.last_received_sequence

\* the client accepted a packet that was ahead of every sequence it had
\* counted to (its own packets carry lower numbers), and ticked afterwards
C40_Witness ==
    /\ client.last_received_sequence >= 2
    /\ c2s # {}
    /\ \E m \in c2s :
           /\ m.header.last_received_sequence = 0
           /\ m.header.current_sequence < client.last_received_sequence
    /\ \E m \in c2s :
           /\ m.header.last_received_sequence = client.last_received_sequence
           /\ m.header.current_sequence > client.last_received_sequence
    /\ client.current_sequence > client.last_received_sequence

\* the sequences of the server packets on their way to the client
ServerSequences == {p.header.sequence : p \in s2c}

\* C32: last_received_sequence changes only upwards, to the sequence of a
\* server packet, and current_sequence jumps to it; bodies are queued and
\* current_sequence leaves the tick count only in such a step, so a packet
\* whose sequence is <= last_received_sequence changes nothing.
C32_ClientInOrder ==
    [][/\ client'.last_received_sequence >= client.last_received_sequence
       /\ client'.last_received_sequence # client.last_received_sequence
            => /\ client'.last_received_sequence \in ServerSequences
               /\ client'.current_sequence = client'.last_received_sequence
       /\ client'.last_received_sequence = client.last_received_sequence
            => /\ cmessages' \in {cmessages, <<>>}
               /\ client'.current_sequence
                      \in {client.current_sequence, client.current_sequence + 1}]_vars

\* the client holds queued bodies of a packet it accepted while an older
\* packet and the accepted one (a duplicate) are still on their way
C32_Witness ==
    /\ client.last_received_sequence >= 3
    /\ cmessages # <<>>
    /\ client.last_received_sequence \in ServerSequences
    /\ \E q \in ServerSequences : q < client.last_received_sequence

\* the WorldDeltas bodies of the server packet with sequence n
DeltaBodies(n) ==
    {b \in UNION {Range(p.bodies) : p \in {q \in s2c : q.header.sequence = n}} :
        b.type = "WorldDeltas"}

\* the client accepts a server packet
ClientAcceptStep ==
    client'.last_received_sequence # client.last_received_sequence

\* the WorldDeltas of the accepted packet are in the inbound queue
AcceptQueuesDeltas ==
    ClientAcceptStep =>
        DeltaBodies(client'.last_received_sequence) \subseteq Range(cmessages')

\* the network tick applies the whole queue before it sends, and what the
\* acknowledged packet carried is in the terrain: replaying it changes nothing
TickAppliesQueue ==
    (ClientTickStep /\ c2s' # c2s) =>
        /\ client'.terrain = ClientHandleAll(client.terrain, cmessages)
        /\ cmessages' = <<>>
        /\ \A b \in DeltaBodies(client'.last_received_sequence) :
               ClientApplyDeltas(client'.terrain, b.deltas) = client'.terrain

\* no body leaves the inbound queue when a packet is accepted
AcceptEvictsNothing ==
    ClientAcceptStep =>
        \E p \in s2c :
            /\ p.header.sequence = client'.last_received_sequence
            /\ cmessages' = cmessages \o p.bodies

\* C37 (as stated): the acknowledged packet's WorldDeltas have been applied
\* when the acknowledgment is sent, and no body of an accepted packet leaves
\* the inbound queue before the network tick applies it.
C37_NothingEvicted ==
    [][AcceptQueuesDeltas /\ TickAppliesQueue /\ AcceptEvictsNothing]_vars

\* C37 (amended): the WorldDeltas of an accepted packet are queued and the
\* network tick applies the whole queue before it sends, so the packet the
\* client acknowledges has been applied; older bodies may leave the queue
\* unapplied when it overflows.
C37_AckImpliesApplied ==
    [][AcceptQueuesDeltas /\ TickAppliesQueue]_vars

\* the client acknowledged a packet whose NewChunks its terrain holds, and
\* its full queue holds the bodies of a later packet
C37_Witness ==
    /\ \E m \in c2s :
           /\ m.header.last_received_sequence >= 2
           /\ \E b \in DeltaBodies(m.header.last_received_sequence) :
                  /\ b.deltas # <<>>
                  /\ b.deltas[1].type = "NewChunks"
                  /\ client.terrain = b.deltas[1].terrain
    /\ Len(cmessages) = CLIENT_MESSAGE_QUEUE_SIZE + 1
    /\ \A m \in c2s :
           m.header.last_received_sequence < client.last_received_sequence

\* two datagrams from the address of entity i in one game tick: each
\* acknowledges nothing or the newest packet, with or without a Ping
RejoinPairs(i) ==
    LET ds == {[addr |-> entities[i].addr,
                message |-> ClientToServer(sequence + 1, lrs, bodies)] :
                  lrs \in {0, sequence}, bodies \in {<<>>, <<Ping>>}}
    IN {<<d1, d2>> : d1 \in ds, d2 \in ds}

\* C38: when two datagrams of a dropped peer are handled in one run, the
\* connection state the entity has afterwards is the fresh state with both
\* messages applied in arrival order.
C38_RejoinAppliesAll ==
    \A i \in DOMAIN entities :
        ~entities[i].connected =>
            \A q \in RejoinPairs(i) :
                handle_messages(entities, q, <<1, 2>>)[i].info
                    = ProcessAll([client |-> DefaultConnectedClientInfo,
                                  input |-> entities[i].input],
                                 <<q[1].message, q[2].message>>).client

\* the Pongs of a body queue
PongsOf(bodies) == {b \in Range(bodies) : b.type = "Pong"}

\* send_all_messages runs in this step
SendStep == "send" \notin done /\ "send" \in done'

C39_AckWithinSent ==
    /\ \A i \in Connected :
           /\ entities[i].info.last_ack <= sequence
           /\ \A k \in Keys(entities[i].info.deltas) :
                  /\ entities[i].info.last_ack < k
                  /\ k <= sequence
                  /\ k # 0
    /\ \A p \in sent : p.message.header.sequence >= 1

\* C36: when the server accepts an in-order acknowledgment of a recorded
\* sequence s, and s is still the newest packet the client has accepted
\* (its terrain is the one it held when it sent the acknowledgment), the
\* peer's new baseline holds the chunks the client's terrain holds, with the
\* same cells.
C36_BaselineIsClientTerrain ==
    [][\A i \in Connected :
          (/\ i \in DOMAIN entities'
           /\ entities'[i].connected
           /\ entities'[i].info.last_ack > entities[i].info.last_ack
           /\ entities'[i].info.last_ack \in Keys(entities[i].info.deltas)
           /\ entities'[i].info.last_ack = client.last_received_sequence)
              => Range(entities'[i].info.last_confirmed_terrain)
                    = Range(client.terrain)]_vars

\* ------------------------------------------------------------------ send failure
\* send_message (common.rs:133-147) returns an error when the message does
\* not fit the buffer (encode_into_slice) or the socket refuses it (send_to);
\* send_all_messages (server.rs:570-585) logs the error and goes on with the
\* next peer: the packets that leave are those of the peers whose send
\* succeeded
TransmittedUntilFailure(packets, failed) ==
    IF failed = {} THEN packets ELSE {}

Transmitted(packets, failed) ==
    {p \in packets : p.addr \notin failed}

\* the mark the failing send of a peer leaves in the log
SendFailed(a) == IF a = 1 THEN "failed1" ELSE "failed2"

\* send_all_messages when send_message fails for some peers
SendAllMessagesFailing ==
    /\ stage = "net"
    /\ ~crashed
    /\ {"info", "terrain"} \subseteq done
    /\ "send" \notin done
    /\ \E failed \in (SUBSET {p.addr : p \in PacketsFor(entities, sequence)}) \ {{}} :
          /\ sent' = Transmitted(PacketsFor(entities, sequence), failed)
          /\ seen' = {SendFailed(a) : a \in failed}
    /\ s2c' = IF client.state = "Absent" THEN s2c
              ELSE s2c \cup {p.message : p \in sent'}
    /\ entities' = AfterSend(entities)
    /\ done' = done \cup {"send"}
    /\ UNCHANGED <<sequence, terrain, stage, crashed, messages,
                   env, client, cmessages, c2s, replay, wire>>

\* the datagrams of two peers: a Ping or nothing, acknowledging nothing or
\* sequence 1
SendBursts(e) ==
    {<<d>> : d \in {f \in Datagrams(e) :
                      /\ f.message.header.current_sequence = e.maxseq
                      /\ f.message.header.last_received_sequence <= 1
                      /\ f.message.bodies \in {<<>>, <<Ping>>}}}

\* two peers that send Pings and acknowledgments
InitSend ==
    /\ InitServer(NumChunks)
    /\ env = Env({1, 2}, TRUE, {}, FALSE, MaxSeq - 1)
    /\ client = NoClient
    /\ cmessages = <<>>
    /\ c2s = {}
    /\ s2c = {}
    /\ replay = NoReplay
    /\ wire = NoWire
    /\ seen = {}

NextSend ==
    \/ GameTick(SendBursts(env))
    \/ IncreaseNetworkTick
    \/ ProcessPlayerMining
    \/ EnqueuePlayerInfo
    \/ EnqueueTerrain
    \/ SendAllMessages
    \/ SendAllMessagesFailing
    \/ DropDisconnectedClients

SpecSend == InitSend /\ [][NextSend]_vars

\* C35: when send_message fails for some peers, the packets of all the
\* other connected peers leave in that tick, the failing peer's pending
\* entry of the sequence stays recorded and no pending map changes, and
\* every queue keeps exactly its Pongs, as after a send that succeeded.
C35_SendFailureIsLocal ==
    [][SendStep =>
          /\ sent' = {p \in PacketsFor(entities, sequence) :
                          SendFailed(p.addr) \notin seen'}
          /\ DOMAIN entities' = DOMAIN entities
          /\ \A i \in Connected :
                 /\ entities'[i].connected
                 /\ entities'[i].info.deltas = entities[i].info.deltas
                 /\ sequence \in Keys(entities'[i].info.deltas)
                 /\ entities'[i].info.last_ack = entities[i].info.last_ack
                 /\ entities'[i].info.bodies
                        = SelectSeq(entities[i].info.bodies,
                                    LAMBDA b : b.type = "Pong")]_vars

\* the send to peer 1 has failed, the packet of peer 2 has left, and peer 1
\* keeps its pending entry of the sequence and its Pong
C35_Witness ==
    /\ "send" \in done
    /\ "failed1" \in seen
    /\ \E p \in sent : p.addr = 2 /\ p.message.header.sequence = sequence
    /\ \E i \in Connected :
          /\ entities[i].addr = 1
          /\ sequence \in Keys(entities[i].info.deltas)
          /\ entities[i].info.bodies # <<>>

\* ------------------------------------------------------------------ socket draining
\* The receive loops of one tick, one receive attempt per step:
\* retrieve_messages (server.rs:295-334) and fetch_messages
\* (client.rs:321-373) call get_one_message until it reports NoMessage.
\* wire holds the socket's pending datagrams, the receive buffer, the
\* outcome of the last attempt and whether the loop has returned.

\* datagrams the socket holds at once
SocketCapacity == 2

\* the address the client is configured with (Client::server)
ServerAddr == 0

U16 == [t |-> "uint", width |-> 2]

\* std::net::SocketAddr: variant V4 is the four octets of the address (the
\* shape of four raw bytes) and the port, variant V6 sixteen octets and the
\* port
SocketAddrLayout ==
    Enum(<<Struct(<<"ip", "port">>, <<F32, U16>>),
           Struct(<<"ip0", "ip1", "ip2", "ip3", "port">>,
                  <<F32, F32, F32, F32, U16>>)>>)

\* common.rs:151-153 ClientAddress
ClientAddressLayout == Struct(<<"addr">>, <<SocketAddrLayout>>)

\* player.rs:34-37 PlayerPosition
PlayerPositionLayout == Struct(<<"x", "y">>, <<F32, F32>>)

\* common.rs:79-84 SingleNetPlayerInfo
SingleNetPlayerInfoLayout ==
    Struct(<<"addr", "position">>, <<ClientAddressLayout, PlayerPositionLayout>>)

\* common.rs:64-77 ServerBodyElem: Pong(u64), Terrain, PlayerInfo
ServerBodyElemLayout ==
    Enum(<<U64, TerrainLayout, VecOf(SingleNetPlayerInfoLayout)>>)

\* common.rs:49-62 ServerToClient and ServerHeader
ServerToClientLayout ==
    Struct(<<"header", "bodies">>,
           <<Struct(<<"sequence">>, <<U64>>), VecOf(ServerBodyElemLayout)>>)

PongValue(s) == [variant |-> 0, payload |-> s]

\* what get_one_message returns: Ok(message) or the ReceiveError
\* (common.rs:125-130)
ReceiveResult(r) ==
    [ok |-> r.ok, value |-> r.value,
     error |-> IF r.ok THEN "None" ELSE "DecodeError"]

UnknownSender == [ok |-> FALSE, value |-> <<>>, error |-> "UnknownSender"]

client_get_one_message_any_sender(buffer, item) ==
    ReceiveResult(decode_from_slice(ServerToClientLayout,
                                    recv_from(buffer, item.bytes)))

\* Client::get_one_message (client.rs:72-91): recv_from fills the buffer,
\* a datagram of another address is refused before it is decoded
client_get_one_message(buffer, item) ==
    IF item.from # ServerAddr THEN UnknownSender
    ELSE ReceiveResult(decode_from_slice(ServerToClientLayout,
                                         recv_from(buffer, item.bytes)))

\* the packets of the server on their way to the client: send_message
\* (common.rs:133-147) sends the whole encoding
DrainPackets ==
    {[header |-> [sequence |-> s], bodies |-> bodies] :
        s \in 1..2, bodies \in {<<>>, <<PongValue(0)>>}}

\* what other addresses send to the client's socket: a well-formed packet
\* of a sequence above the server's, and bytes that are no packet
ForeignDatagrams ==
    {encode_to_vec(ServerToClientLayout,
                   [header |-> [sequence |-> 3], bodies |-> <<PongValue(7)>>]),
     <<9, 1, 0, 5, 9, 1, 0, 5>>}

\* what the client's socket yields
ClientSocketItems ==
    {[from |-> ServerAddr, bytes |-> encode_to_vec(ServerToClientLayout, m)] :
        m \in DrainPackets}
        \cup {[from |-> 1, bytes |-> b] : b \in ForeignDatagrams}

\* what the server's socket yields: two whole messages, one cut short, and
\* bytes that are no message
ServerSocketItems ==
    {[from |-> 1, bytes |-> encode_to_vec(ClientToServerLayout, m)] :
        m \in {n \in CodecMessages : n.bodies \in {<<>>, <<PingValue>>}
                                        /\ n.header.last_received_sequence = 1}}
        \cup {[from |-> 1, bytes |-> <<2>>], [from |-> 2, bytes |-> <<254>>]}

SocketItems(loop) ==
    IF loop = "fetch_messages" THEN ClientSocketItems ELSE ServerSocketItems

\* a datagram reaches the socket while the loop runs
DatagramArrives ==
    /\ wire.pc = "loop"
    /\ Len(wire.socket) < SocketCapacity
    /\ \E item \in SocketItems(wire.loop) :
          wire' = [wire EXCEPT !.socket = Append(@, item)]
    /\ UNCHANGED <<serverVars, messages, env, clientVars, replay, seen>>

\* one turn of the loop in which recv_from yields a datagram: the message
\* is queued (server.rs:301-315, client.rs:323-359), an error is logged
\* (server.rs:320-331, client.rs:361-370), and the loop goes on
DrainReceive ==
    /\ wire.pc = "loop"
    /\ wire.socket # <<>>
    /\ \E item \in {Head(wire.socket)} :
       \E r \in {IF wire.loop = "fetch_messages"
                 THEN client_get_one_message(wire.buffer, item)
                 ELSE ReceiveResult(get_one_message(wire.buffer, item.bytes))} :
          /\ wire' = [wire EXCEPT !.step = 1 - @,
                                  !.socket = Tail(@),
                                  !.buffer = recv_from(@, item.bytes),
                                  !.last = r.error]
          /\ IF wire.loop = "retrieve_messages"
             THEN /\ messages' =
                        IF r.ok
                        THEN PushMessage(messages,
                                         [addr |-> item.from, message |-> r.value])
                        ELSE messages
                  /\ UNCHANGED <<client, cmessages>>
             ELSE /\ IF r.ok /\ ClientAccepts(client, r.value)
                     THEN /\ cmessages' = ClientPushBodies(cmessages, r.value.bodies)
                          /\ client' = ClientAfterPacket(client, r.value)
                     ELSE UNCHANGED <<client, cmessages>>
                  /\ UNCHANGED messages
    /\ UNCHANGED <<serverVars, env, c2s, s2c, replay, seen>>

\* one turn in which recv_from fails with an error other than WouldBlock
\* (server.rs:98-103, client.rs:74-79): it is logged and the loop goes on
DrainIoError ==
    /\ wire.pc = "loop"
    /\ wire' = [wire EXCEPT !.step = 1 - @, !.last = "IoError"]
    /\ UNCHANGED <<serverVars, messages, env, clientVars, replay, seen>>

\* recv_from reports WouldBlock, get_one_message NoMessage: the loop breaks
\* (server.rs:316-319, client.rs:364-367)
DrainNoMessage ==
    /\ wire.pc = "loop"
    /\ wire.socket = <<>>
    /\ wire' = [wire EXCEPT !.step = 1 - @, !.pc = "returned",
                            !.last = "NoMessage"]
    /\ UNCHANGED <<serverVars, messages, env, clientVars, replay, seen>>

\* one turn of the loop
DrainTurn == DrainReceive \/ DrainIoError \/ DrainNoMessage

InitDrain ==
    /\ InitServer(NumChunks)
    /\ env = Env({1}, TRUE, {}, FALSE, 1)
    /\ client = NewClientState
    /\ cmessages = <<>>
    /\ c2s = {}
    /\ s2c = {}
    /\ replay = NoReplay
    /\ seen = {}
    /\ \E loop \in {"retrieve_messages", "fetch_messages"} :
          wire = [step |-> 0, loop |-> loop, pc |-> "loop", socket |-> <<>>,
                  buffer |-> [i \in 1..BUFFER_SIZE |-> 0], last |-> "None"]

NextDrain ==
    \/ DatagramArrives
    \/ DrainReceive
    \/ DrainIoError
    \/ DrainNoMessage

SpecDrain == InitDrain /\ [][NextDrain]_vars

\* the loop is straight-line code: it always takes its next turn
SpecDrainFair == SpecDrain /\ WF_vars(DrainTurn)

\* C31: the receive loop of a tick returns, whatever the receive attempts
\* yield.
C31_DrainTerminates == <>(wire.pc = "returned")

\* fetch_messages takes a datagram off the socket in this step
FetchReceives ==
    /\ wire.loop = "fetch_messages"
    /\ wire.pc = "loop"
    /\ Len(wire'.socket) < Len(wire.socket)

\* the message a datagram decodes to in a buffer that held nothing before
DecodedAlone(bytes) ==
    decode_from_slice(ServerToClientLayout,
                      recv_from([i \in 1..BUFFER_SIZE |-> 0], bytes))

\* C33: a datagram from an address other than the server's leaves
\* last_received_sequence, current_sequence, the terrain and the inbound
\* queue as they were, and what a later packet of the server does is what
\* the packet does in a buffer no other datagram was written to.
C33_ForeignDatagramIgnored ==
    [][FetchReceives =>
          LET item == Head(wire.socket)
              alone == DecodedAlone(item.bytes)
          IN IF item.from # ServerAddr
             THEN client' = client /\ cmessages' = cmessages
             ELSE /\ alone.ok
                  /\ IF ClientAccepts(client, alone.value)
                     THEN /\ client' = ClientAfterPacket(client, alone.value)
                          /\ cmessages' =
                                 ClientPushBodies(cmessages, alone.value.bodies)
                     ELSE client' = client /\ cmessages' = cmessages]_vars

\* the well-formed packet of sequence 3 came from another address and was
\* refused, its last byte is still in the buffer, and the server's packet
\* of sequence 2 was accepted after it
C33_Witness ==
    /\ wire.loop = "fetch_messages"
    /\ wire.buffer[4] = 7
    /\ wire.last = "None"
    /\ client.last_received_sequence = 2
    /\ client.current_sequence = 2

====
